---- MODULE Spec2Model ----
(***************************************************************************)
(* Threshold-signature coordinator / signer cluster (veritss).             *)
(*                                                                         *)
(* The module models the coordinator-side DKG session task                 *)
(* (Session::start), the coordinator event loop that routes the session's  *)
(* requests to registered signers and their responses back, the            *)
(* coordinator -> signer transport, and the signer-side DKG replica        *)
(* (SignerSession::new_from_request / update_from_request).  Once the key  *)
(* exists, one signing sub-session runs against the signers' key shares.   *)
(***************************************************************************)
EXTENDS Integers, Sequences, FiniteSets, TLC

VARIABLES
    valid_validators,      \* Coordinator.valid_validators : identity -> registration
    dkg_request_mapping,   \* Coordinator.dkg_request_mapping : request id -> (sender, peer)
    dkg_session_receiver,  \* queue session -> event loop of (request, oneshot sender)
    net,                   \* coor2sig requests / responses in flight
    pc,                    \* position of the Session::start task
    dkg_state,             \* Session.dkg_state
    futures,               \* the oneshot receivers of the current attempt
    responses,             \* the BTreeMap collected in the current attempt
    signer_sessions,       \* per signer: its SignerSession (or NoSession)
    signing,               \* one signing sub-session: coordinator and signers
    hist,                  \* history of the run (what the properties speak about)
    signer_whitelist,      \* Coordinator.signer_whitelist : Option<HashSet<Identity>>
    auto_dkg,              \* Coordinator.auto_dkg : Option<AutoDKG>
    p2ppeerid_2_endpoint,  \* Coordinator.p2ppeerid_2_endpoint : peer -> address
    instruction_sender,    \* the instructions sent to the session manager
    last_response,         \* the response sent on the sig2coor / node2coor channel
    signing_request_mapping,     \* Coordinator.signing_request_mapping
    dkg_request_mapping_ex,      \* Coordinator.dkg_request_mapping_ex
    signing_request_mapping_ex,  \* Coordinator.signing_request_mapping_ex
    dkg_in_final_channel,        \* what dkg_in_final_channel_sender has sent
    signing_in_final_channel,    \* what signing_in_final_channel_sender has sent
    event_loop,                  \* the event loop task: "running" or "panicked"
    futures_for_node,            \* Coordinator.*_response_futures_for_node
    node_answers,                \* history: responses sent per node2coor request
    auto_dkg_tasks,              \* per ciphersuite: the task spawned for its NewKey
    auto_dkg_file,               \* <base>/auto_dkg.json
    sessions,                    \* the session manager's sessions, by SessionId
    list_hash_calls,             \* the calls of list_hash: arguments and digest
    auto_dkg_lock,               \* the RwLock around Coordinator.auto_dkg
    lock_pc                      \* where each user of the lock stands

\* the pending-request maps of the signing and the extended sessions
other_mappings ==
    <<signing_request_mapping, dkg_request_mapping_ex, signing_request_mapping_ex>>

\* the channels on which the extended sessions receive final messages
final_channels == <<dkg_in_final_channel, signing_in_final_channel>>

\* the response channels of node2coor requests whose answer is left to the
\* session manager, and the count of the responses each request has got
node_vars == <<futures_for_node, node_answers>>

\* the auto-DKG tasks and the file they write
auto_vars == <<auto_dkg_tasks, auto_dkg_file>>

\* the event loop's state that the DKG session and the signers never touch
event_loop_vars ==
    <<signer_whitelist, auto_dkg, p2ppeerid_2_endpoint, instruction_sender,
      last_response, other_mappings, final_channels, event_loop, node_vars, auto_vars>>

\* the state of the parts studied on their own: the session manager's
\* sessions, the calls of list_hash, and the lock around the auto-DKG state
side_vars == <<sessions, list_hash_calls, auto_dkg_lock, lock_pc>>

vars == <<valid_validators, dkg_request_mapping, dkg_session_receiver, net, pc,
          dkg_state, futures, responses, signer_sessions, signing, hist,
          event_loop_vars, side_vars>>

----------------------------------------------------------------------------
(* Bounds of the model *)

\* number of faults (lost messages, forged responses) the environment may
\* inject in one run
MaxFaults == 1
\* the history counters saturate here
MaxCount == 4
\* instructions the session manager may have waiting at a time
MaxInstructions == 1
\* relayed requests in flight, and final messages waiting, at a time
MaxInFlight == 2
\* node2coor requests of one run
MaxInbound == 2
\* the items of one call of list_hash, and the calls of one run
MaxItems == 2
MaxCalls == 2

----------------------------------------------------------------------------
(* The session under study: three signers, threshold two (scenario S1/S3) *)

Identifiers == {1, 2, 3}
IdentityOf(i) == 10 + i
Identities == {IdentityOf(i) : i \in Identifiers}
PeerOf(identity) == 100 + identity
participants == [i \in Identifiers |-> IdentityOf(i)]
min_signers == 2
CryptoTypes == {"Ed25519", "Secp256k1", "Secp256k1Tr"}
\* the ciphersuite the session under study is created with
SessionCryptoTypes == {"Ed25519"}
\* values the signers' thread_rng can produce
RngValues == {0, 1}

EmptyMap == <<>>
Put(map, k, v) == [x \in DOMAIN map \cup {k} |-> IF x = k THEN v ELSE map[x]]
Remove(map, k) == [x \in DOMAIN map \ {k} |-> map[x]]
Restrict(map, S) == [x \in DOMAIN map \cap S |-> map[x]]
Bump(n) == IF n < MaxCount THEN n + 1 ELSE MaxCount

----------------------------------------------------------------------------
(* The FROST backend (frost_ed25519 / frost_secp256k1 / frost_secp256k1_tr), *)
(* as the black box the sessions call.  A round-1 package carries the     *)
(* sender's commitment (here: the random value r it was derived from) and *)
(* a proof of knowledge bound to the sender's identifier; a round-2       *)
(* package carries the share of `from` for `to`, verifiable against the   *)
(* round-1 commitment of `from`.                                           *)

Round1Package(ct, id, r) == [tag |-> "Round1", ct |-> ct, from |-> id, r |-> r]
Round2Package(ct, from, to, r) ==
    [tag |-> "Round2", ct |-> ct, from |-> from, to |-> to, r |-> r]

\* keys::dkg::part1(identifier, max_signers, min_signers, rng)
frost_part1(ct, identifier, max_signers, minsigners, r) ==
    IF minsigners < 2 \/ max_signers < 2 \/ minsigners > max_signers
    THEN [ok |-> FALSE]
    ELSE [ok |-> TRUE,
          secret |-> [ct |-> ct, identifier |-> identifier, r |-> r,
                      max_signers |-> max_signers],
          package |-> Round1Package(ct, identifier, r)]

\* keys::dkg::part2(round1_secret_package, round1_packages)
frost_part2(secret, round1_packages) ==
    IF Cardinality(DOMAIN round1_packages) # secret.max_signers - 1
       \/ \E id \in DOMAIN round1_packages : round1_packages[id].from # id
    THEN [ok |-> FALSE]
    ELSE [ok |-> TRUE,
          secret |-> secret,
          packages |-> [id \in DOMAIN round1_packages |->
                          Round2Package(secret.ct, secret.identifier, id, secret.r)]]

\* keys::dkg::part3(round2_secret_package, round1_packages, round2_packages)
frost_part3(secret, round1_packages, round2_packages) ==
    IF Cardinality(DOMAIN round1_packages) # secret.max_signers - 1
       \/ DOMAIN round2_packages # DOMAIN round1_packages
       \/ \E id \in DOMAIN round2_packages :
              \/ round2_packages[id].from # id
              \/ round2_packages[id].to # secret.identifier
              \/ round2_packages[id].r # round1_packages[id].r
    THEN [ok |-> FALSE]
    ELSE [ok |-> TRUE,
          key_package |-> [ct |-> secret.ct, identifier |-> secret.identifier,
                           r |-> secret.r, max_signers |-> secret.max_signers],
          public_key_package |->
              [tag |-> "PublicKey", ct |-> secret.ct,
               vk |-> [id \in DOMAIN round1_packages \cup {secret.identifier} |->
                          IF id = secret.identifier THEN secret.r
                          ELSE round1_packages[id].r]]]

----------------------------------------------------------------------------
(* Requests and responses of one DKG round (DKGSingleRequest / -Response) *)

Part1Request(ct, id, identity) ==
    [kind |-> "Part1", crypto_type |-> ct, min_signers |-> min_signers,
     max_signers |-> Cardinality(DOMAIN participants),
     participants |-> participants, identifier |-> id, identity |-> identity,
     round1_packages |-> EmptyMap, round2_packages |-> EmptyMap]

Part2Request(ct, id, identity, r1) ==
    [kind |-> "Part2", crypto_type |-> ct, min_signers |-> min_signers,
     max_signers |-> Cardinality(DOMAIN participants),
     participants |-> participants, identifier |-> id, identity |-> identity,
     round1_packages |-> r1, round2_packages |-> EmptyMap]

GenPublicKeyRequest(ct, id, identity, r1, r2) ==
    [kind |-> "GenPublicKey", crypto_type |-> ct, min_signers |-> min_signers,
     max_signers |-> Cardinality(DOMAIN participants),
     participants |-> participants, identifier |-> id, identity |-> identity,
     round1_packages |-> r1, round2_packages |-> r2]

Response(kind, request, package) ==
    [kind |-> kind, identifier |-> request.identifier,
     identity |-> request.identity, crypto_package |-> package]

Failure(request, err) ==
    [kind |-> "Failure", identifier |-> request.identifier,
     identity |-> request.identity, crypto_package |-> [tag |-> err]]

Err(e) == [ok |-> FALSE, err |-> e]

----------------------------------------------------------------------------
(* The signer replica: SignerSession *)

NoSession == [exists |-> FALSE]

\* (variant: the signer's own package is not filtered out)
OthersUnfiltered(self, packages) == packages

\* (variant: the reserved identifier 0 is not refused)
IdentifierErrorZeroAllowed(parts, request) ==
    \/ request.identifier \notin DOMAIN parts
    \/ parts[request.identifier] # request.identity

\* the checks shared by new_from_request and both arms of update_from_request
IdentifierError(parts, request) ==
    \/ request.identifier \notin DOMAIN parts
    \/ parts[request.identifier] # request.identity
    \/ request.identifier = 0

\* SignerSession::new_from_request; r is the value thread_rng yields
new_from_request(request, r) ==
    IF request.kind # "Part1" THEN Err("InvalidRequest")
    ELSE IF IdentifierError(request.participants, request)
    THEN Err("InvalidParticipants")
    ELSE LET res == frost_part1(request.crypto_type, request.identifier,
                                Cardinality(DOMAIN request.participants),
                                request.min_signers, r)
         IN IF ~res.ok THEN Err("InvalidParticipants")
            ELSE [ok |-> TRUE,
                  session |->
                     [exists |-> TRUE,
                      crypto_type |-> request.crypto_type,
                      participants |-> request.participants,
                      identity |-> request.identity,
                      identifier |-> request.identifier,
                      dkg_state |->
                         [round |-> "Part1",
                          crypto_type |-> request.crypto_type,
                          identifier |-> request.identifier,
                          identity |-> request.identity,
                          secret |-> res.secret,
                          round1_packages |-> EmptyMap,
                          public_key_package |-> [tag |-> "None"]]],
                  response |-> Response("Part1", request, res.package)]

\* the packages of the other participants, as the `for (id, package)` loops
\* of update_from_request collect them
Others(self, packages) == Restrict(packages, DOMAIN packages \ {self.identifier})

\* update_from_request, arm DKGSingleRequest::Part2, inside
\* `if let DKGSignerState::Part1 { .. } = &self.dkg_state`
part2_from_part1(self, request) ==
    IF IdentifierError(self.participants, request)
    THEN Err("InvalidParticipants")
    ELSE LET ct == request.crypto_type
             r1 == Others(self, request.round1_packages)
         IN IF \E id \in DOMAIN r1 : r1[id].tag # "Round1" \/ r1[id].ct # ct
            THEN Err("InvalidParticipants")
            ELSE IF self.dkg_state.secret.ct # ct THEN Err("InvalidParticipants")
            ELSE LET res == frost_part2(self.dkg_state.secret, r1)
                 IN IF ~res.ok THEN Err("InternalError")
                    ELSE [ok |-> TRUE,
                          dkg_state |->
                             [round |-> "Part2",
                              crypto_type |-> ct,
                              identifier |-> request.identifier,
                              identity |-> request.identity,
                              secret |-> res.secret,
                              round1_packages |-> request.round1_packages,
                              public_key_package |-> [tag |-> "None"]],
                          response |->
                             Response("Part2", request,
                                      [tag |-> "Round2", ct |-> ct,
                                       packages |-> res.packages])]

\* (variant: a Part2 request is served again by a replica already in Part2)
update_part2_served_again(self, request) ==
    IF self.dkg_state.round \notin {"Part1", "Part2"} THEN Err("InvalidRequest")
    ELSE part2_from_part1(self, request)

\* update_from_request, arm DKGSingleRequest::Part2
update_part2(self, request) ==
    IF self.dkg_state.round # "Part1" THEN Err("InvalidRequest")
    ELSE part2_from_part1(self, request)

\* update_from_request, arm DKGSingleRequest::GenPublicKey, inside
\* `if let DKGSignerState::Part2 { .. } = &self.dkg_state`
gen_public_key_from_part2(self, request) ==
    IF IdentifierError(self.participants, request)
    THEN Err("InvalidParticipants")
    ELSE LET ct == request.crypto_type
             r1 == Others(self, request.round1_packages)
             r2all == Others(self, request.round2_packages)
             \* a round-2 package of another ciphersuite is skipped, not refused
             r2 == Restrict(r2all, {id \in DOMAIN r2all :
                                      r2all[id].tag = "Round2" /\ r2all[id].ct = ct})
         IN IF \E id \in DOMAIN r1 : r1[id].tag # "Round1" \/ r1[id].ct # ct
            THEN Err("InvalidParticipants")
            ELSE IF self.dkg_state.secret.ct # ct THEN Err("InvalidParticipants")
            ELSE LET res == frost_part3(self.dkg_state.secret, r1, r2)
                 IN IF ~res.ok THEN Err("InvalidParticipants")
                    ELSE [ok |-> TRUE,
                          dkg_state |->
                             [round |-> "Completed",
                              crypto_type |-> ct,
                              identifier |-> request.identifier,
                              identity |-> request.identity,
                              secret |-> res.key_package,
                              round1_packages |-> EmptyMap,
                              public_key_package |-> res.public_key_package],
                          response |->
                             Response("Part2", request, res.public_key_package)]

\* (variant: GenPublicKey is served by any replica that is not yet Completed)
update_gen_public_key_early(self, request) ==
    IF self.dkg_state.round \notin {"Part1", "Part2"} THEN Err("InvalidRequest")
    ELSE gen_public_key_from_part2(self, request)

\* (variant: a retried GenPublicKey is served again by a Completed replica)
update_gen_public_key_again(self, request) ==
    IF self.dkg_state.round \notin {"Part2", "Completed"} THEN Err("InvalidRequest")
    ELSE gen_public_key_from_part2(self, request)

\* update_from_request, arm DKGSingleRequest::GenPublicKey
update_gen_public_key(self, request) ==
    IF self.dkg_state.round # "Part2" THEN Err("InvalidRequest")
    ELSE gen_public_key_from_part2(self, request)

\* SignerSession::update_from_request
update_from_request(self, request) ==
    CASE request.kind = "Part1" -> Err("InvalidRequest")
      [] request.kind = "Part2" -> update_part2(self, request)
      [] request.kind = "GenPublicKey" -> update_gen_public_key(self, request)

----------------------------------------------------------------------------
(* The coordinator-side DKG state: DKGState *)

DKGStateNew(ct) ==
    [round |-> "Part1", crypto_type |-> ct, round1_packages |-> EmptyMap,
     round2_packages |-> EmptyMap, public_key |-> [tag |-> "None"]]

completed(state) == state.round = "Completed"

\* one request per participant, keyed by the participant's identifier
split_into_single_requests(state) ==
    [i \in DOMAIN participants |->
        CASE state.round = "Part1" ->
                Part1Request(state.crypto_type, i, participants[i])
          [] state.round = "Part2" ->
                Part2Request(state.crypto_type, i, participants[i],
                             state.round1_packages)
          [] state.round = "GenPublicKey" ->
                GenPublicKeyRequest(state.crypto_type, i, participants[i],
                    state.round1_packages,
                    [j \in DOMAIN participants \ {i} |->
                        state.round2_packages[j][i]])]

\* every response is a participant's, with that participant's identity and a
\* package of the round and of the ciphersuite of the session (a round-2
\* bundle holds one package for each other participant)
ResponsesMatch(state, resps, tag) ==
    /\ DOMAIN resps \subseteq DOMAIN participants
    /\ \A i \in DOMAIN resps :
          /\ resps[i].kind # "Failure"
          /\ resps[i].identity = participants[i]
          /\ resps[i].crypto_package.tag = tag
          /\ resps[i].crypto_package.ct = state.crypto_type
          /\ tag = "Round2" =>
                DOMAIN resps[i].crypto_package.packages = DOMAIN participants \ {i}

handle_response(state, resps) ==
    CASE state.round = "Part1" ->
            IF ~ResponsesMatch(state, resps, "Round1") THEN Err("InvalidResponse")
            ELSE [ok |-> TRUE,
                  state |-> [state EXCEPT
                      !.round = "Part2",
                      !.round1_packages =
                          [i \in DOMAIN resps |-> resps[i].crypto_package]]]
      [] state.round = "Part2" ->
            IF ~ResponsesMatch(state, resps, "Round2") THEN Err("InvalidResponse")
            ELSE [ok |-> TRUE,
                  state |-> [state EXCEPT
                      !.round = "GenPublicKey",
                      !.round2_packages =
                          [i \in DOMAIN resps |-> resps[i].crypto_package.packages]]]
      [] state.round = "GenPublicKey" ->
            IF ~ResponsesMatch(state, resps, "PublicKey") THEN Err("InvalidResponse")
            ELSE IF \E i, j \in DOMAIN resps :
                        resps[i].crypto_package # resps[j].crypto_package
            THEN Err("PublicKeyMismatch")
            ELSE [ok |-> TRUE,
                  state |-> [state EXCEPT
                      !.round = "Completed",
                      !.public_key =
                          resps[CHOOSE i \in DOMAIN resps : TRUE].crypto_package]]
      [] OTHER -> Err("InvalidResponse")

----------------------------------------------------------------------------
(* Oneshot channels and request ids *)

Pending == [st |-> "pending"]
Taken == [st |-> "taken"]
Ready(v) == [st |-> "ready", val |-> v]

\* (variant: what is sent on a oneshot is lost)
oneshot_send_lost(futs, c, v) == futs

\* oneshot::Sender::send: the value reaches a receiver that still waits
OneshotSend(futs, c, v) ==
    IF c \in DOMAIN futs /\ futs[c].st = "pending"
    THEN [futs EXCEPT ![c] = Ready(v)] ELSE futs

\* request ids are unique among the requests the transport still knows
InUseIds ==
    DOMAIN dkg_request_mapping \cup DOMAIN signing_request_mapping
      \cup DOMAIN dkg_request_mapping_ex \cup DOMAIN signing_request_mapping_ex
      \cup {m.rid : m \in net}
FreshId == CHOOSE n \in 1..(Cardinality(InUseIds) + 1) : n \notin InUseIds

Request(rid, peer, body) == [type |-> "request", rid |-> rid, peer |-> peer, body |-> body]
Reply(rid, peer, body) == [type |-> "response", rid |-> rid, peer |-> peer, body |-> body]

NoValidator == [registered |-> FALSE]
NoAddress == 0
Validator(peer, nonce, address) ==
    [registered |-> TRUE, p2p_peer_id |-> peer, nonce |-> nonce, address |-> address]

----------------------------------------------------------------------------
(* Session::start: the task of one DKG session *)

\* top of the loop: leave when completed, else one request per participant
SessionLoopTop ==
    /\ pc = "top"
    /\ IF completed(dkg_state)
       THEN /\ pc' = "done"
            /\ UNCHANGED <<dkg_session_receiver, futures, responses, hist, side_vars>>
       ELSE LET requests == split_into_single_requests(dkg_state)
                order == CHOOSE q \in [1..Cardinality(DOMAIN requests) -> DOMAIN requests] :
                            \A a, b \in DOMAIN q : a < b => q[a] < q[b]
            IN /\ futures' = [i \in DOMAIN requests |-> Pending]
               /\ dkg_session_receiver' = dkg_session_receiver \o
                     [k \in DOMAIN order |->
                        [request |-> requests[order[k]], sender |-> order[k]]]
               /\ responses' = EmptyMap
               /\ pc' = "collect"
               /\ UNCHANGED side_vars
               /\ hist' = [hist EXCEPT
                     !.emitted = @ \cup {<<dkg_state.round, i>> : i \in DOMAIN requests},
                     !.retried = IF \E i \in DOMAIN requests :
                                       <<dkg_state.round, i>> \in hist.emitted
                                 THEN @ \cup {dkg_state.round} ELSE @,
                     !.request_count = [i \in DOMAIN @ |->
                          IF i \in DOMAIN requests THEN Bump(@[i]) ELSE @[i]]]
    /\ UNCHANGED <<event_loop_vars, signing, valid_validators, dkg_request_mapping, net, dkg_state,
                   signer_sessions>>

\* futures.next().await yields a response: it is merged under its identifier
SessionCollect(c) ==
    /\ pc = "collect"
    /\ c \in DOMAIN futures
    /\ futures[c].st = "ready"
    /\ futures' = [futures EXCEPT ![c] = Taken]
    /\ responses' = Put(responses, futures[c].val.identifier, futures[c].val)
    /\ pc' = IF \A d \in DOMAIN futures' : futures'[d].st = "taken"
             THEN "handle" ELSE "collect"
    /\ UNCHANGED <<event_loop_vars, signing, valid_validators, dkg_request_mapping, dkg_session_receiver,
                   net, dkg_state, signer_sessions, hist, side_vars>>

\* (variant: a threshold of responses is taken to be enough)
AllResponsesThreshold(resps) == Cardinality(DOMAIN resps) >= min_signers

\* whether the collected responses are handed to handle_response
AllResponses(resps) == Cardinality(DOMAIN resps) = Cardinality(DOMAIN participants)

\* (variant: an error of handle_response restarts the DKG from Part1)
NextDkgStateRestart(state, result) ==
    IF result.ok THEN result.state ELSE DKGStateNew(state.crypto_type)

\* the state the session continues with, given what handle_response returned
NextDkgState(state, result) == IF result.ok THEN result.state ELSE state

\* after the collection loop: advance, or sleep and retry the round
SessionHandle ==
    /\ pc = "handle"
    /\ IF AllResponses(responses)
       THEN LET result == handle_response(dkg_state, responses)
            IN /\ dkg_state' = NextDkgState(dkg_state, result)
               /\ pc' = IF result.ok THEN "top" ELSE "sleep"
               /\ UNCHANGED side_vars
               /\ hist' = IF result.ok
                          THEN [hist EXCEPT
                                  !.accepted = Put(@, dkg_state.round, responses),
                                  !.completions =
                                      IF completed(result.state) THEN Bump(@) ELSE @]
                          ELSE [hist EXCEPT
                                  !.rejected = @ \cup {<<dkg_state.round, result.err>>}]
       ELSE /\ pc' = "sleep"
            /\ dkg_state' = dkg_state
            /\ UNCHANGED side_vars
            /\ hist' = [hist EXCEPT
                          !.rejected = @ \cup {<<dkg_state.round, "Incomplete">>}]
    /\ UNCHANGED <<event_loop_vars, signing, valid_validators, dkg_request_mapping, dkg_session_receiver,
                   net, futures, responses, signer_sessions>>

\* the retry interval has elapsed: `continue`
SessionRetry ==
    /\ pc = "sleep"
    /\ pc' = "top"
    /\ UNCHANGED <<event_loop_vars, signing, valid_validators, dkg_request_mapping, dkg_session_receiver,
                   net, dkg_state, futures, responses, signer_sessions, hist, side_vars>>

----------------------------------------------------------------------------
(* The coordinator event loop: Coordinator::start_listening *)

\* handle_dkg_request: a request of the session is sent to the peer the
\* participant registered from, or answered with a failure at once
HandleDkgRequest ==
    /\ event_loop = "running"
    /\ dkg_session_receiver # <<>>
    /\ LET item == Head(dkg_session_receiver)
           validator == valid_validators[item.request.identity]
           rid == FreshId
       IN IF validator.registered
          THEN /\ net' = net \cup {Request(rid, validator.p2p_peer_id, item.request)}
               /\ dkg_request_mapping' =
                     Put(dkg_request_mapping, rid,
                         [sender |-> item.sender, peer |-> validator.p2p_peer_id])
               /\ UNCHANGED <<futures, hist, side_vars>>
          ELSE /\ futures' = OneshotSend(futures, item.sender,
                                         Failure(item.request, "ValidatorNotFound"))
               /\ UNCHANGED <<net, dkg_request_mapping, hist, side_vars>>
    /\ dkg_session_receiver' = Tail(dkg_session_receiver)
    /\ UNCHANGED <<event_loop_vars, signing, valid_validators, pc, dkg_state, responses, signer_sessions>>

\* the variant of CoorToSigResponse a response body belongs to
ResponseVariant(body) ==
    IF "variant" \in DOMAIN body THEN body.variant ELSE "DKGResponse"

\* (variant: a response is honoured whatever peer it comes from)
from_any_peer(entry, peer) == TRUE

\* `if *validator_peer_id != peer { return Ok(()) }`
from_expected_peer(entry, peer) == entry.peer = peer

\* handle_swarm_event, CoorToSigResponse::DKGResponse: honoured only from the
\* peer the request went to; the entry is removed and the session is answered
HandleDkgResponse(m) ==
    /\ event_loop = "running"
    /\ m \in net
    /\ m.type = "response"
    /\ ResponseVariant(m.body) = "DKGResponse"
    /\ m.rid \in DOMAIN dkg_request_mapping
    /\ net' = net \ {m}
    /\ LET entry == dkg_request_mapping[m.rid]
       IN IF ~from_expected_peer(entry, m.peer)
          THEN UNCHANGED <<dkg_request_mapping, futures>>
          ELSE /\ dkg_request_mapping' = Remove(dkg_request_mapping, m.rid)
               /\ futures' = OneshotSend(futures, entry.sender, m.body)
    /\ UNCHANGED <<event_loop_vars, signing, valid_validators, dkg_session_receiver, pc, dkg_state,
                   responses, signer_sessions, hist, side_vars>>

\* handle_swarm_event, `other =>`: the transport reports that a request got
\* no response within coor2sig_request_timeout (request_response
\* OutboundFailure); the event is logged and nothing else happens
HandleOutboundFailure(m) ==
    /\ event_loop = "running"
    /\ m \in net
    /\ hist.timeouts + hist.corrupt < MaxFaults
    /\ net' = net \ {m}
    /\ UNCHANGED side_vars
    /\ hist' = [hist EXCEPT !.timeouts = @ + 1]
    /\ UNCHANGED <<event_loop_vars, signing, valid_validators, dkg_request_mapping, dkg_session_receiver,
                   pc, dkg_state, futures, responses, signer_sessions>>

----------------------------------------------------------------------------
(* Validator registration: Coordinator::handle_vi_request *)

\* the coordinator's own p2p peer id, and that of another coordinator
CoordinatorPeer == 100
OtherCoordinatorPeer == 101
\* the peer a signer moves to when it re-registers
NewPeer == 120

\* Identity::to_bytes, PeerId::to_bytes
IdentityBytes(identity) == <<identity \div 10, identity % 10>>
PeerBytes(peer) == <<peer \div 100, (peer \div 10) % 10, peer % 10>>
RegisterBytes == <<"r", "e", "g", "i", "s", "t", "e", "r">>

\* utils::list_hash: SHA-256 over the items fed one after the other
RECURSIVE Concat(_)
Concat(data) == IF data = <<>> THEN <<>> ELSE Head(data) \o Concat(Tail(data))
\* (variant: the bytes fed to the hasher are returned as they are)
list_hash_unhashed(data) == [bytes |-> Concat(data)]

list_hash(data) == [sha256 |-> Concat(data)]

\* the length of `hasher.finalize().to_vec()`: a SHA-256 digest has 32 bytes
Sha256Len == 32
VecLen(digest) ==
    IF "sha256" \in DOMAIN digest THEN Sha256Len ELSE Len(digest.bytes)

\* a call of list_hash, as the test of utils.rs makes them
ListHashCall(data) ==
    /\ Cardinality(list_hash_calls) < MaxCalls
    /\ list_hash_calls' =
          list_hash_calls
             \cup {[n |-> Cardinality(list_hash_calls) + 1, data |-> data,
                    digest |-> list_hash(data)]}
    /\ UNCHANGED <<valid_validators, dkg_request_mapping, dkg_session_receiver, net,
                   pc, dkg_state, futures, responses, signer_sessions, signing,
                   hist, event_loop_vars, sessions, auto_dkg_lock, lock_pc>>

\* the public key of an identity, and PublicKey::to_identity
PublicKeyOf(identity) == 1000 + identity
InvalidPublicKey == 0
to_identity(public_key) == public_key - 1000

\* a signature is made with the secret key that belongs to a public key
Sign(public_key, hash) == [key |-> public_key, hash |-> hash]
BadSignature == [key |-> 0, hash |-> <<>>]
public_key_verify(public_key, hash, signature) ==
    signature.key = public_key /\ signature.hash = hash

\* what a signer signs to register from `peer` at `coordinator`
register_hash(identity, peer, coordinator) ==
    list_hash(<<RegisterBytes, IdentityBytes(identity), PeerBytes(peer),
                PeerBytes(coordinator)>>)

\* (variant: the hash covers the signer's usual peer, not the connection's)
vi_hash_usual_peer(identity, peer, coordinator) ==
    register_hash(identity, PeerOf(identity), coordinator)

\* the hash handle_vi_request checks the signature against
vi_hash(identity, peer, coordinator) == register_hash(identity, peer, coordinator)

ValidatorIdentityRequest(signature, public_key, nonce) ==
    [signature |-> signature, public_key |-> public_key, nonce |-> nonce]

NoWhitelist == [some |-> FALSE]
Whitelist(set) == [some |-> TRUE, set |-> set]
NoAutoDKG == [some |-> FALSE]
NoPkId == 0
AutoDKG(set) ==
    [some |-> TRUE, whitelist |-> set, registered |-> {}, spawned |-> {},
     results |-> [ct \in CryptoTypes |-> NoPkId]]

\* AutoDKG::update_new_dkg_result: the ciphersuite gets the PkId unless it
\* has one; tells whether every ciphersuite has one, with the state to save
update_new_dkg_result(auto, ct, pkid) ==
    LET results == IF auto.results[ct] = NoPkId
                   THEN [auto.results EXCEPT ![ct] = pkid] ELSE auto.results
    IN [auto_dkg |-> [auto EXCEPT !.results = results],
        done |-> \A c \in CryptoTypes : results[c] # NoPkId]

\* the task of a ciphersuite: where it is, the result its oneshot has got,
\* and how many tasks have been spawned for the ciphersuite in this run
NoTask == [pc |-> "none", result |-> [tag |-> "none"], spawned |-> 0]
NoFile == [state |-> "absent"]

\* (variant: the tasks are spawned at every registration)
tasks_to_spawn_always(start) == CryptoTypes

\* `if let Some(participants) = ...register_signer(..)
\*  { for crypto_type in CryptoType::iter() { tokio::spawn(..) } }`
tasks_to_spawn(start) == IF start THEN CryptoTypes ELSE {}

\* tokio::spawn of the task of every ciphersuite of `spawn`
SpawnTasks(tasks, spawn) ==
    [ct \in CryptoTypes |->
        IF ct \in spawn
        THEN [pc |-> "send", result |-> [tag |-> "none"], spawned |-> Bump(tasks[ct].spawned)]
        ELSE tasks[ct]]

\* AutoDKG::register_signer: the identity joins the registered set; the
\* participants are returned when the set has just become the whitelist
register_signer(auto, identity) ==
    LET registered == auto.registered \cup ({identity} \cap auto.whitelist)
    IN [auto_dkg |-> [auto EXCEPT !.registered = registered],
        start |-> registered = auto.whitelist /\ auto.registered # auto.whitelist]

\* (variant: the whitelist is enforced on every endpoint)
whitelist_rejects_always(whitelist, identity, verify_whitelist) ==
    whitelist.some /\ identity \notin whitelist.set

\* (variant: the whitelist is not consulted)
whitelist_rejects_never(whitelist, identity, verify_whitelist) == FALSE

\* `if !whitelist.contains(&validator_peer) && verify_whitelist`
whitelist_rejects(whitelist, identity, verify_whitelist) ==
    whitelist.some /\ identity \notin whitelist.set /\ verify_whitelist

\* (variant: only the first registration of an identity is stored)
should_insert_first_only(old, nonce) == ~old.registered

\* (variant: every valid registration is stored)
should_insert_always(old, nonce) == TRUE

\* (variant: a registration with the stored nonce is stored again)
should_insert_equal(old, nonce) == IF old.registered THEN old.nonce <= nonce ELSE TRUE

\* the registration is stored when it is the first or carries a higher nonce
should_insert(old, nonce) == IF old.registered THEN old.nonce < nonce ELSE TRUE

\* (variant: an identity check registers the identity on every endpoint)
check_only_never(verify_whitelist) == FALSE

\* `if !verify_whitelist { return Ok(()); }`: on the node endpoint the
\* identity is checked and nothing else is done
check_only(verify_whitelist) == ~verify_whitelist

\* handle_vi_request(peer, request, verify_whitelist): the result, and the
\* validator table and auto-DKG state it leaves
handle_vi_request(peer, request, verify_whitelist) ==
    LET unchanged(result) ==
            [result |-> result, valid_validators |-> valid_validators,
             auto_dkg |-> auto_dkg, spawn |-> {}]
    IN IF request.public_key = InvalidPublicKey
       THEN unchanged(Err("Invalid public key"))
       ELSE LET validator_peer == to_identity(request.public_key)
                hash == vi_hash(validator_peer, peer, CoordinatorPeer)
                address == IF peer \in DOMAIN p2ppeerid_2_endpoint
                           THEN p2ppeerid_2_endpoint[peer] ELSE NoAddress
                auto == IF auto_dkg.some
                        THEN register_signer(auto_dkg, validator_peer)
                        ELSE [auto_dkg |-> auto_dkg, start |-> FALSE]
            IN IF whitelist_rejects(signer_whitelist, validator_peer, verify_whitelist)
               THEN unchanged(Err("not in whitelist"))
               ELSE IF ~public_key_verify(request.public_key, hash, request.signature)
               THEN unchanged(Err("Invalid signature"))
               ELSE IF check_only(verify_whitelist) THEN unchanged([ok |-> TRUE])
               ELSE [result |-> [ok |-> TRUE],
                     valid_validators |->
                        IF should_insert(valid_validators[validator_peer], request.nonce)
                        THEN [valid_validators EXCEPT ![validator_peer] =
                                 Validator(peer, request.nonce, address)]
                        ELSE valid_validators,
                     auto_dkg |->
                        IF auto.start
                        THEN [auto.auto_dkg EXCEPT !.spawned = CryptoTypes]
                        ELSE auto.auto_dkg,
                     spawn |-> IF auto_dkg.some THEN tasks_to_spawn(auto.start)
                               ELSE {}]

\* a signer's registration with a valid signature is handled
HandleViRequest(identity, peer, nonce) ==
    LET request == ValidatorIdentityRequest(
                       Sign(PublicKeyOf(identity),
                            register_hash(identity, peer, CoordinatorPeer)),
                       PublicKeyOf(identity), nonce)
        res == handle_vi_request(peer, request, TRUE)
    IN /\ event_loop = "running"
       /\ valid_validators' = res.valid_validators
       /\ auto_dkg' = res.auto_dkg
       /\ auto_dkg_tasks' = SpawnTasks(auto_dkg_tasks, res.spawn)
       /\ UNCHANGED auto_dkg_file
       /\ UNCHANGED <<signer_whitelist, p2ppeerid_2_endpoint, instruction_sender,
                      last_response, other_mappings, final_channels, event_loop,
                      node_vars>>
       /\ UNCHANGED <<signing, dkg_request_mapping, dkg_session_receiver, net, pc,
                      dkg_state, futures, responses, signer_sessions, hist, side_vars>>

\* a signer registers from its peer
RegisterSigner(identity) ==
    /\ ~valid_validators[identity].registered
    /\ HandleViRequest(identity, PeerOf(identity), 1)

\* (variant: a Failure response is logged and not sent)
send_response_success_only(body) ==
    IF body.tag = "Failure" THEN [tag |-> "None"] ELSE body

\* swarm.behaviour_mut().sig2coor.send_response(channel, body): what the
\* request's channel gets
send_response(body) == body

\* inbound requests are told apart by their request id
NoResponse == [protocol |-> "none", request_id |-> 0]
NextRequestId == (last_response.request_id + 1) % 2

\* handle_swarm_event, SigToCoorRequest::ValidatorIndentity from `peer`
HandleValidatorIdentity(peer, request) ==
    LET res == handle_vi_request(peer, request, TRUE)
    IN /\ event_loop = "running"
       /\ valid_validators' = res.valid_validators
       /\ auto_dkg' = res.auto_dkg
       /\ auto_dkg_tasks' = SpawnTasks(auto_dkg_tasks, res.spawn)
       /\ UNCHANGED auto_dkg_file
       /\ last_response' =
             [protocol |-> "sig2coor", request_id |-> NextRequestId, peer |-> peer,
              request |-> request,
              body |-> send_response(
                          IF res.result.ok THEN [tag |-> "Success"]
                          ELSE [tag |-> "Failure", err |-> res.result.err])]
       /\ UNCHANGED <<signer_whitelist, p2ppeerid_2_endpoint, instruction_sender,
                      other_mappings, final_channels, event_loop, node_vars>>
       /\ UNCHANGED <<signing, dkg_request_mapping, dkg_session_receiver, net, pc,
                      dkg_state, futures, responses, signer_sessions, hist, side_vars>>

\* handle_swarm_event, SwarmEvent::ConnectionEstablished
ConnectionEstablished(peer, address) ==
    /\ event_loop = "running"
    /\ p2ppeerid_2_endpoint' = Put(p2ppeerid_2_endpoint, peer, address)
    /\ UNCHANGED <<signer_whitelist, auto_dkg, instruction_sender, last_response,
                   other_mappings, final_channels, event_loop, node_vars, auto_vars>>
    /\ UNCHANGED <<signing, valid_validators, dkg_request_mapping,
                   dkg_session_receiver, net, pc, dkg_state, futures, responses,
                   signer_sessions, hist, side_vars>>

\* NodeToCoorRequest: every request carries a validator identity
NodeRequest(validator_identity, instruction) ==
    [validator_identity |-> validator_identity, instruction |-> instruction]

\* `participants.iter().enumerate().map(|(i, v)| ((i + 1) as u16, v))`
Enumerated(list) == [i \in 1..Len(list) |-> list[i]]

MaxParticipants == 255

\* what the node2coor arm does with the instruction of a request whose
\* validator identity was accepted: the response it sends at once (Pending
\* when the response is left to the session manager's answer) and the
\* instructions it sends to the session manager
dispatch_instruction(instruction) ==
    LET failure(text) == [response |-> [tag |-> "Failure", err |-> text], send |-> <<>>]
        forward(i) == [response |-> [tag |-> "Pending"], send |-> <<i>>]
    IN CASE instruction.kind = "DKGRequest" ->
               IF auto_dkg.some THEN failure("AutoDKG is enabled")
               ELSE IF Len(instruction.participants) > MaxParticipants
               THEN failure("Too many participants")
               ELSE forward([kind |-> "NewKey",
                             crypto_type |-> instruction.crypto_type,
                             participants |-> Enumerated(instruction.participants),
                             min_signers |-> instruction.min_signers])
         [] instruction.kind = "SigningRequest" ->
               forward([kind |-> "Sign", pkid |-> instruction.pkid,
                        msg |-> instruction.msg])
         [] instruction.kind = "LsPkRequest" -> forward([kind |-> "ListPkIds"])
         [] instruction.kind = "AutoDKGRequest" ->
               [response |-> [tag |-> "AutoDKGResponse", auto_dkg_result |-> auto_dkg],
                send |-> <<>>]
         [] instruction.kind = "PkTweakRequest" ->
               forward([kind |-> "PkTweakRequest", pkid |-> instruction.pkid])

\* the instruction with the oneshot on which its result is awaited
WithOneshot(instruction, channel) ==
    [f \in DOMAIN instruction \cup {"oneshot"} |->
        IF f = "oneshot" THEN channel ELSE instruction[f]]

\* handle_swarm_event, a request on the node2coor protocol from `peer`
HandleNodeRequest(peer, request) ==
    LET res == handle_vi_request(peer, request.validator_identity, FALSE)
        out == IF res.result.ok THEN dispatch_instruction(request.instruction)
               ELSE [response |-> [tag |-> "Failure", err |-> res.result.err],
                     send |-> <<>>]
        channel == Cardinality(DOMAIN node_answers) + 1
        answered == IF out.response.tag = "Pending" THEN 0 ELSE 1
    IN /\ event_loop = "running"
       /\ Len(instruction_sender) < MaxInstructions
       /\ channel <= MaxInbound
       /\ valid_validators' = res.valid_validators
       /\ auto_dkg' = res.auto_dkg
       /\ auto_dkg_tasks' = SpawnTasks(auto_dkg_tasks, res.spawn)
       /\ UNCHANGED auto_dkg_file
       /\ instruction_sender' =
             instruction_sender
                \o [i \in DOMAIN out.send |-> WithOneshot(out.send[i], channel)]
       /\ futures_for_node' =
             futures_for_node
                \cup {[channel |-> channel, kind |-> out.send[i].kind,
                       result |-> "waiting"] : i \in DOMAIN out.send}
       /\ node_answers' = Put(node_answers, channel, answered)
       /\ last_response' =
             [protocol |-> "node2coor", request_id |-> NextRequestId, peer |-> peer,
              request |-> request, channel |-> channel,
              body |-> out.response]
       /\ UNCHANGED <<signer_whitelist, p2ppeerid_2_endpoint, other_mappings,
                      final_channels, event_loop>>
       /\ UNCHANGED <<signing, dkg_request_mapping, dkg_session_receiver, net, pc,
                      dkg_state, futures, responses, signer_sessions, hist, side_vars>>

\* the task spawned with the instruction passes the manager's result, or
\* InstructionResponseError when the oneshot was dropped, to the future
forward_result(result) == IF result = "ok" THEN "ok" ELSE "err"

\* the oneshot of the instruction of the auto-DKG task of a ciphersuite
\* (those of the nodes' requests are numbered from 1, the one of an IPC
\* command is 0)
TaskOneshot(ct) ==
    CASE ct = "Ed25519" -> -1 [] ct = "Secp256k1" -> -2 [] ct = "Secp256k1Tr" -> -3
IpcOneshot == 0

\* what the session manager does with an instruction's oneshot: the PkId
\* (or other result) of a session that succeeded, an error, or dropping it
PkIds == {1, 2}
ManagerResults ==
    {[tag |-> "ok", pkid |-> pkid] : pkid \in PkIds}
    \cup {[tag |-> "err"], [tag |-> "dropped"]}

\* the session manager takes the next instruction from its channel and
\* answers its oneshot, or drops it
ManagerReceives ==
    /\ instruction_sender # <<>>
    /\ instruction_sender' = Tail(instruction_sender)
    /\ \E result \in ManagerResults :
          /\ futures_for_node' =
                {IF f.channel = Head(instruction_sender).oneshot
                 THEN [f EXCEPT !.result = forward_result(result.tag)] ELSE f :
                    f \in futures_for_node}
          /\ auto_dkg_tasks' =
                [ct \in CryptoTypes |->
                    IF /\ TaskOneshot(ct) = Head(instruction_sender).oneshot
                       /\ auto_dkg_tasks[ct].pc = "await"
                    THEN [auto_dkg_tasks[ct] EXCEPT !.result = result]
                    ELSE auto_dkg_tasks[ct]]
    /\ UNCHANGED <<signer_whitelist, auto_dkg, p2ppeerid_2_endpoint, last_response,
                   other_mappings, final_channels, event_loop, node_answers,
                   auto_dkg_file>>
    /\ UNCHANGED <<signing, valid_validators, dkg_request_mapping,
                   dkg_session_receiver, net, pc, dkg_state, futures, responses,
                   signer_sessions, hist, side_vars>>

\* the response a node gets for the result of its instruction
NodeResponse(kind, result) ==
    IF result = "err" THEN [tag |-> "Failure", err |-> "session"]
    ELSE [tag |-> CASE kind = "NewKey" -> "DKGResponse"
                    [] kind = "Sign" -> "SigningResponse"
                    [] kind = "ListPkIds" -> "LsPkResponse"
                    [] kind = "PkTweakRequest" -> "PkTweakResponse"]

\* (variant: the future stays in the collection after it has been taken)
take_future_kept(pending, f) == pending

\* FuturesUnordered::next(): the future that is ready leaves the collection
take_future(pending, f) == pending \ {f}

\* start_listening, the arms `Some(Ok((result, channel))) =
\* self.*_response_futures_for_node.next()`
NodeResponseReady(f) ==
    /\ event_loop = "running"
    /\ f \in futures_for_node
    /\ f.result # "waiting"
    /\ futures_for_node' = take_future(futures_for_node, f)
    /\ node_answers' = [node_answers EXCEPT ![f.channel] = Bump(@)]
    /\ last_response' =
          [protocol |-> "node2coor", request_id |-> NextRequestId,
           channel |-> f.channel, body |-> NodeResponse(f.kind, f.result)]
    /\ UNCHANGED <<signer_whitelist, auto_dkg, p2ppeerid_2_endpoint,
                   instruction_sender, other_mappings, final_channels, event_loop,
                   auto_vars>>
    /\ UNCHANGED <<signing, valid_validators, dkg_request_mapping,
                   dkg_session_receiver, net, pc, dkg_state, futures, responses,
                   signer_sessions, hist, side_vars>>

----------------------------------------------------------------------------
(* The auto-DKG tasks, the file they write, and a restart *)

\* the frame of a step of an auto-DKG task
TaskFrame ==
    /\ UNCHANGED <<signer_whitelist, p2ppeerid_2_endpoint, last_response,
                   other_mappings, final_channels, event_loop, node_vars>>
    /\ UNCHANGED <<signing, valid_validators, dkg_request_mapping,
                   dkg_session_receiver, net, pc, dkg_state, futures, responses,
                   signer_sessions, hist, side_vars>>

\* the task sends Instruction::NewKey to the session manager and awaits the
\* result
AutoTaskSend(ct) ==
    /\ auto_dkg_tasks[ct].pc = "send"
    /\ Len(instruction_sender) < MaxInstructions
    /\ instruction_sender' =
          Append(instruction_sender,
                 [kind |-> "NewKey", crypto_type |-> ct,
                  participants |-> auto_dkg.whitelist, oneshot |-> TaskOneshot(ct)])
    /\ auto_dkg_tasks' =
          [auto_dkg_tasks EXCEPT ![ct] = [@ EXCEPT !.pc = "await",
                                                   !.result = [tag |-> "waiting"]]]
    /\ UNCHANGED <<auto_dkg, auto_dkg_file>>
    /\ TaskFrame

\* (variant: the task gives up after a failure)
after_failure_stops == "done"

\* `Ok(Err(e)) | Err(e)`: logged, then the task sleeps
after_failure == "sleep"

\* the task has the result of its NewKey: Ok(Ok(pkid)) is recorded and, when
\* that was the last ciphersuite, auto_dkg.json is created; then the task
\* ends.  Any other result makes it sleep.
AutoTaskResult(ct) ==
    LET task == auto_dkg_tasks[ct]
        upd == update_new_dkg_result(auto_dkg, ct, task.result.pkid)
    IN /\ task.pc = "await"
       /\ task.result.tag # "waiting"
       /\ IF task.result.tag = "ok"
          THEN /\ auto_dkg' = upd.auto_dkg
               /\ auto_dkg_tasks' =
                     [auto_dkg_tasks EXCEPT ![ct] =
                         [@ EXCEPT !.pc = IF upd.done THEN "write" ELSE "done"]]
               /\ auto_dkg_file' =
                     IF upd.done THEN [state |-> "created"] ELSE auto_dkg_file
          ELSE /\ auto_dkg_tasks' =
                     [auto_dkg_tasks EXCEPT ![ct] = [@ EXCEPT !.pc = after_failure]]
               /\ UNCHANGED <<auto_dkg, auto_dkg_file>>
       /\ UNCHANGED instruction_sender
       /\ TaskFrame

\* what serde_json::to_writer writes of the state
Saved(auto) == [auto EXCEPT !.spawned = {}]

\* serde_json::to_writer(auto_dkg_writer, &auto_dkg_value), and the task ends
AutoTaskWrite(ct) ==
    /\ auto_dkg_tasks[ct].pc = "write"
    /\ auto_dkg_file' = [state |-> "written", content |-> Saved(auto_dkg)]
    /\ auto_dkg_tasks' = [auto_dkg_tasks EXCEPT ![ct] = [@ EXCEPT !.pc = "done"]]
    /\ UNCHANGED <<auto_dkg, instruction_sender>>
    /\ TaskFrame

\* tokio::time::sleep(state_channel_retry_interval) is over
AutoTaskRetry(ct) ==
    /\ auto_dkg_tasks[ct].pc = "sleep"
    /\ auto_dkg_tasks' = [auto_dkg_tasks EXCEPT ![ct] = [@ EXCEPT !.pc = "send"]]
    /\ UNCHANGED <<auto_dkg, auto_dkg_file, instruction_sender>>
    /\ TaskFrame

\* (variant: the file is ignored at startup)
load_auto_dkg_fresh(file, configured) == configured

\* Coordinator::new: `if auto_dkg_path.exists() { .. from_reader(..).unwrap() }
\* else { AutoDKG::new(min_signers, whitelist) }`
load_auto_dkg(file, configured) ==
    IF file.state = "written" THEN file.content ELSE configured

\* the process stops at any point and is started again with the same
\* configuration: Coordinator::new.  A file that exists and does not parse
\* makes the start panic.
Restart ==
    /\ auto_dkg' =
          load_auto_dkg(auto_dkg_file,
                        IF auto_dkg.some THEN AutoDKG(auto_dkg.whitelist)
                        ELSE NoAutoDKG)
    /\ event_loop' = IF auto_dkg_file.state = "created" THEN "panicked" ELSE "running"
    /\ valid_validators' = [s \in Identities |-> NoValidator]
    /\ auto_dkg_tasks' = [ct \in CryptoTypes |-> NoTask]
    /\ instruction_sender' = <<>>
    /\ last_response' = NoResponse
    /\ p2ppeerid_2_endpoint' = EmptyMap
    /\ futures_for_node' = {}
    /\ UNCHANGED <<signer_whitelist, other_mappings, final_channels, node_answers,
                   auto_dkg_file>>
    /\ UNCHANGED <<signing, dkg_request_mapping, dkg_session_receiver, net, pc,
                   dkg_state, futures, responses, signer_sessions, hist, side_vars>>

\* handle_command, Command::StartDkg(min_signers, crypto_type)
HandleCommandStartDkg(crypto_type) ==
    /\ event_loop = "running"
    /\ Len(instruction_sender) < MaxInstructions
    /\ instruction_sender' =
          Append(instruction_sender,
                 [kind |-> "NewKey", crypto_type |-> crypto_type,
                  participants |->
                     {s \in Identities : valid_validators[s].registered},
                  oneshot |-> IpcOneshot])
    /\ UNCHANGED <<signer_whitelist, auto_dkg, p2ppeerid_2_endpoint, last_response,
                   other_mappings, final_channels, event_loop, node_vars, auto_vars>>
    /\ UNCHANGED <<signing, valid_validators, dkg_request_mapping,
                   dkg_session_receiver, net, pc, dkg_state, futures, responses,
                   signer_sessions, hist, side_vars>>

----------------------------------------------------------------------------
(* The event loop: requests of the signing and the extended sessions *)

\* SigningRequestWrap, DKGRequestWrapEx, SigningRequestWrapEx: what the
\* event loop reads of them is the identity they are meant for
SessionRequest(kind, identity) == [kind |-> kind, identity |-> identity]

\* request.failure(text)
WrapFailure(request, err) ==
    [variant |-> request.kind, kind |-> "Failure", identity |-> request.identity,
     err |-> err]

\* handle_signing_request: the request of a session, with the sender of the
\* oneshot channel the session awaits the response on
HandleSigningRequest(request, sender) ==
    /\ event_loop = "running"
    /\ sender \notin DOMAIN futures
    /\ LET validator == valid_validators[request.identity]
           rid == FreshId
       IN IF validator.registered
          THEN /\ net' = net \cup {Request(rid, validator.p2p_peer_id, request)}
               /\ signing_request_mapping' =
                     Put(signing_request_mapping, rid,
                         [sender |-> sender, peer |-> validator.p2p_peer_id])
               /\ futures' = Put(futures, sender, Pending)
          ELSE /\ futures' = Put(futures, sender,
                                 Ready(WrapFailure(request, "ValidatorNotFound")))
               /\ UNCHANGED <<net, signing_request_mapping>>
    /\ UNCHANGED <<dkg_request_mapping_ex, signing_request_mapping_ex, signer_whitelist,
                   auto_dkg, p2ppeerid_2_endpoint,
                   instruction_sender, last_response, final_channels, event_loop, node_vars, auto_vars>>
    /\ UNCHANGED <<signing, valid_validators, dkg_request_mapping,
                   dkg_session_receiver, pc, dkg_state, responses, signer_sessions,
                   hist, side_vars>>

\* handle_dkg_request_ex
HandleDkgRequestEx(request, sender) ==
    /\ event_loop = "running"
    /\ sender \notin DOMAIN futures
    /\ LET validator == valid_validators[request.identity]
           rid == FreshId
       IN IF validator.registered
          THEN /\ net' = net \cup {Request(rid, validator.p2p_peer_id, request)}
               /\ dkg_request_mapping_ex' =
                     Put(dkg_request_mapping_ex, rid,
                         [sender |-> sender, peer |-> validator.p2p_peer_id])
               /\ futures' = Put(futures, sender, Pending)
          ELSE /\ futures' = Put(futures, sender,
                                 Ready(WrapFailure(request, "ValidatorNotFound")))
               /\ UNCHANGED <<net, dkg_request_mapping_ex>>
    /\ UNCHANGED <<signing_request_mapping, signing_request_mapping_ex, signer_whitelist,
                   auto_dkg, p2ppeerid_2_endpoint,
                   instruction_sender, last_response, final_channels, event_loop, node_vars, auto_vars>>
    /\ UNCHANGED <<signing, valid_validators, dkg_request_mapping,
                   dkg_session_receiver, pc, dkg_state, responses, signer_sessions,
                   hist, side_vars>>

\* handle_signing_request_ex
HandleSigningRequestEx(request, sender) ==
    /\ event_loop = "running"
    /\ sender \notin DOMAIN futures
    /\ LET validator == valid_validators[request.identity]
           rid == FreshId
       IN IF validator.registered
          THEN /\ net' = net \cup {Request(rid, validator.p2p_peer_id, request)}
               /\ signing_request_mapping_ex' =
                     Put(signing_request_mapping_ex, rid,
                         [sender |-> sender, peer |-> validator.p2p_peer_id])
               /\ futures' = Put(futures, sender, Pending)
          ELSE /\ futures' = Put(futures, sender,
                                 Ready(WrapFailure(request, "ValidatorNotFound")))
               /\ UNCHANGED <<net, signing_request_mapping_ex>>
    /\ UNCHANGED <<signing_request_mapping, dkg_request_mapping_ex, signer_whitelist,
                   auto_dkg, p2ppeerid_2_endpoint,
                   instruction_sender, last_response, final_channels, event_loop, node_vars, auto_vars>>
    /\ UNCHANGED <<signing, valid_validators, dkg_request_mapping,
                   dkg_session_receiver, pc, dkg_state, responses, signer_sessions,
                   hist, side_vars>>

\* handle_swarm_event, CoorToSigResponse::SigningResponse
HandleSigningResponse(m) ==
    /\ event_loop = "running"
    /\ m \in net
    /\ m.type = "response"
    /\ ResponseVariant(m.body) = "SigningResponse"
    /\ m.rid \in DOMAIN signing_request_mapping
    /\ net' = net \ {m}
    /\ LET entry == signing_request_mapping[m.rid]
       IN IF ~from_expected_peer(entry, m.peer)
          THEN UNCHANGED <<signing_request_mapping, futures>>
          ELSE /\ signing_request_mapping' = Remove(signing_request_mapping, m.rid)
               /\ futures' = OneshotSend(futures, entry.sender, m.body)
    /\ UNCHANGED <<dkg_request_mapping_ex, signing_request_mapping_ex, signer_whitelist,
                   auto_dkg, p2ppeerid_2_endpoint,
                   instruction_sender, last_response, final_channels, event_loop, node_vars, auto_vars>>
    /\ UNCHANGED <<signing, valid_validators, dkg_request_mapping,
                   dkg_session_receiver, pc, dkg_state, responses, signer_sessions,
                   hist, side_vars>>

\* handle_swarm_event, CoorToSigResponse::DKGResponseEx
HandleDkgResponseEx(m) ==
    /\ event_loop = "running"
    /\ m \in net
    /\ m.type = "response"
    /\ ResponseVariant(m.body) = "DKGResponseEx"
    /\ net' = net \ {m}
    /\ IF m.rid \in DOMAIN dkg_request_mapping_ex
       THEN LET entry == dkg_request_mapping_ex[m.rid]
            IN IF ~from_expected_peer(entry, m.peer)
               THEN UNCHANGED <<dkg_request_mapping_ex, futures>>
               ELSE /\ dkg_request_mapping_ex' = Remove(dkg_request_mapping_ex, m.rid)
                    /\ futures' = OneshotSend(futures, entry.sender, m.body)
       ELSE UNCHANGED <<dkg_request_mapping_ex, futures>>
    /\ UNCHANGED <<signing_request_mapping, signing_request_mapping_ex, signer_whitelist,
                   auto_dkg, p2ppeerid_2_endpoint,
                   instruction_sender, last_response, final_channels, event_loop, node_vars, auto_vars>>
    /\ UNCHANGED <<signing, valid_validators, dkg_request_mapping,
                   dkg_session_receiver, pc, dkg_state, responses, signer_sessions,
                   hist, side_vars>>

\* handle_swarm_event, CoorToSigResponse::SigningResponseEx
HandleSigningResponseEx(m) ==
    /\ event_loop = "running"
    /\ m \in net
    /\ m.type = "response"
    /\ ResponseVariant(m.body) = "SigningResponseEx"
    /\ net' = net \ {m}
    /\ IF m.rid \in DOMAIN signing_request_mapping_ex
       THEN LET entry == signing_request_mapping_ex[m.rid]
            IN IF ~from_expected_peer(entry, m.peer)
               THEN UNCHANGED <<signing_request_mapping_ex, futures>>
               ELSE /\ signing_request_mapping_ex' = Remove(signing_request_mapping_ex, m.rid)
                    /\ futures' = OneshotSend(futures, entry.sender, m.body)
       ELSE UNCHANGED <<signing_request_mapping_ex, futures>>
    /\ UNCHANGED <<signing_request_mapping, dkg_request_mapping_ex, signer_whitelist,
                   auto_dkg, p2ppeerid_2_endpoint,
                   instruction_sender, last_response, final_channels, event_loop, node_vars, auto_vars>>
    /\ UNCHANGED <<signing, valid_validators, dkg_request_mapping,
                   dkg_session_receiver, pc, dkg_state, responses, signer_sessions,
                   hist, side_vars>>

\* handle_swarm_event, DKGResponse or SigningResponse with a request id that
\* is not in the variant's map: `.get(&request_id).unwrap()` panics
ResponsePanics(m) ==
    /\ event_loop = "running"
    /\ m \in net
    /\ m.type = "response"
    /\ \/ /\ ResponseVariant(m.body) = "DKGResponse"
          /\ m.rid \notin DOMAIN dkg_request_mapping
       \/ /\ ResponseVariant(m.body) = "SigningResponse"
          /\ m.rid \notin DOMAIN signing_request_mapping
    /\ net' = net \ {m}
    /\ event_loop' = "panicked"
    /\ UNCHANGED <<signer_whitelist, auto_dkg, p2ppeerid_2_endpoint,
                   instruction_sender, last_response, other_mappings, final_channels,
                   node_vars, auto_vars>>
    /\ UNCHANGED <<signing, valid_validators, dkg_request_mapping,
                   dkg_session_receiver, pc, dkg_state, futures, responses,
                   signer_sessions, hist, side_vars>>

----------------------------------------------------------------------------
(* The extended path: envelopes signers send through the coordinator *)

\* DKGRequestWrapEx / SigningRequestWrapEx as they arrive from a signer:
\* whether they decode, and the participants, stage, `from` and target
\* that dkg_request_ex() / signing_request_ex() then yield
Envelope(kind, decodes, stage, from, target) ==
    [kind |-> kind, decodes |-> decodes, participants |-> participants,
     stage |-> stage, from |-> from, target |-> target]
Target(to) == [tag |-> "Target", to |-> to]
Broadcast == [tag |-> "Broadcast"]
NoTarget == [tag |-> "None"]

\* (variant: an Init envelope is treated like a Final one)
is_init_never(stage) == FALSE

\* the arm DKGStageEx::Init / SigningStageEx::Init
is_init(stage) == stage = "Init"

\* the identities the envelope is to be sent to with send_request_to_signer
relay_to(envelope) ==
    IF envelope.target.tag = "Target"
    THEN IF envelope.target.to \in DOMAIN envelope.participants
         THEN {envelope.participants[envelope.target.to]} ELSE {}
    ELSE {envelope.participants[i] :
             i \in DOMAIN envelope.participants \ {envelope.from}}

\* send_request_to_signer succeeds for a registered identity
Routable(identity) == valid_validators[identity].registered

\* the request ids of n requests sent one after the other
Rank(x, S) == Cardinality({y \in S : y < x})
FreshIds(n) ==
    LET free == (1..(Cardinality(InUseIds) + n)) \ InUseIds
    IN {f \in free : Rank(f, free) < n}

\* send_request_to_signer for every identity of `targets` that is registered
Relayed(targets, envelope) ==
    LET sent == {id \in targets : Routable(id)}
        rids == FreshIds(Cardinality(sent))
    IN {Request(CHOOSE f \in rids : Rank(f, rids) = Rank(id, sent),
                valid_validators[id].p2p_peer_id, envelope) : id \in sent}

\* (variant: a broadcast is answered with Failure when a forward failed)
broadcast_response_strict(targets) ==
    IF \A id \in targets : Routable(id) THEN "Success" ELSE "Failure"

\* the arm TargetOrBroadcast::Broadcast: the errors of send_request_to_signer
\* are logged and the sender is answered with Success
broadcast_response(targets) == "Success"

\* what the arm does with a decoded envelope: the response to the sender,
\* the requests relayed and whether the envelope goes to the final channel
relay_decision(envelope) ==
    LET answer(tag, err, relayed, final) ==
            [response |-> [tag |-> tag, err |-> err], relayed |-> relayed,
             final |-> final]
    IN IF ~envelope.decodes THEN answer("Failure", "decode", {}, FALSE)
       ELSE IF is_init(envelope.stage)
       THEN answer("Failure", "Cannot send init message", {}, FALSE)
       ELSE IF envelope.stage = "Intermediate"
       THEN IF envelope.target.tag = "Target"
            THEN IF relay_to(envelope) = {}
                    \/ \E id \in relay_to(envelope) : ~Routable(id)
                 THEN answer("Failure", "Invalid participant", {}, FALSE)
                 ELSE answer("Success", "", Relayed(relay_to(envelope), envelope),
                             FALSE)
            ELSE answer(broadcast_response(relay_to(envelope)), "",
                        Relayed(relay_to(envelope), envelope), FALSE)
       ELSE answer("Success", "", {}, TRUE)

\* (variant: the envelope is not put on the channel)
final_channel_dropped(channel, envelope) == channel

\* dkg_in_final_channel_sender.send / signing_in_final_channel_sender.send
final_channel_send(channel, envelope) == Append(channel, envelope)

\* handle_swarm_event, SigToCoorRequest::DKGRequestEx / SigningRequestEx from
\* `peer`
HandleRequestEx(peer, envelope) ==
    LET out == relay_decision(envelope)
    IN /\ event_loop = "running"
       /\ Cardinality(net) + Cardinality(out.relayed) <= MaxInFlight
       /\ Len(dkg_in_final_channel) + Len(signing_in_final_channel) < MaxInFlight
       /\ net' = net \cup out.relayed
       /\ dkg_in_final_channel' =
             IF out.final /\ envelope.kind = "DKGRequestEx"
             THEN final_channel_send(dkg_in_final_channel, envelope) ELSE dkg_in_final_channel
       /\ signing_in_final_channel' =
             IF out.final /\ envelope.kind = "SigningRequestEx"
             THEN final_channel_send(signing_in_final_channel, envelope)
             ELSE signing_in_final_channel
       /\ last_response' =
             [protocol |-> "sig2coor", request_id |-> NextRequestId, peer |-> peer,
              request |-> envelope, body |-> send_response(out.response)]
       /\ UNCHANGED <<signer_whitelist, auto_dkg, p2ppeerid_2_endpoint,
                      instruction_sender, other_mappings, event_loop, node_vars, auto_vars>>
       /\ UNCHANGED <<signing, valid_validators, dkg_request_mapping,
                      dkg_session_receiver, pc, dkg_state, futures, responses,
                      signer_sessions, hist, side_vars>>

----------------------------------------------------------------------------
(* The signers *)

\* what a signer does with a DKG request: the first request of a session
\* creates the replica, later ones update it; an error is answered as Failure
SignerDispatch(session, request, r) ==
    IF ~session.exists
    THEN new_from_request(request, r)
    ELSE LET res == update_from_request(session, request)
         IN IF res.ok
            THEN [ok |-> TRUE,
                  session |-> [session EXCEPT !.dkg_state = res.dkg_state],
                  response |-> res.response]
            ELSE res

SignerOf(peer) == CHOOSE s \in Identities : PeerOf(s) = peer

SignerHandleRequest(m, r) ==
    /\ m \in net
    /\ m.type = "request"
    /\ LET s == SignerOf(m.peer)
           res == SignerDispatch(signer_sessions[s], m.body, r)
       IN /\ signer_sessions' =
                IF res.ok THEN [signer_sessions EXCEPT ![s] = res.session]
                ELSE signer_sessions
          /\ net' = (net \ {m}) \cup
                {Reply(m.rid, m.peer,
                       IF res.ok THEN res.response ELSE Failure(m.body, res.err))}
          /\ UNCHANGED side_vars
          /\ hist' = IF res.ok /\ res.session.dkg_state.round = "Completed"
                     THEN [hist EXCEPT !.keys_stored[s] = Bump(@)]
                     ELSE hist
    /\ UNCHANGED <<event_loop_vars, signing, valid_validators, dkg_request_mapping, dkg_session_receiver,
                   pc, dkg_state, futures, responses>>

\* what a misbehaving signer may send instead of the response r: another
\* group public key, or the identifier and identity of another participant
Forgeries(m) ==
    IF m.type # "response" THEN {} ELSE
    LET r == m.body IN
    {[r EXCEPT !.crypto_package.vk =
          [i \in DOMAIN @ |-> IF i = r.identifier THEN 1 - @[i] ELSE @[i]]] :
        x \in IF r.crypto_package.tag = "PublicKey" THEN {1} ELSE {}}
    \cup {[r EXCEPT !.identifier = i, !.identity = participants[i]] :
            i \in DOMAIN participants \ {r.identifier}}

SignerMisbehaves(m, forged) ==
    /\ m \in net
    /\ m.type = "response"
    /\ hist.timeouts + hist.corrupt < MaxFaults
    /\ forged \in Forgeries(m)
    /\ net' = (net \ {m}) \cup {[m EXCEPT !.body = forged]}
    /\ UNCHANGED side_vars
    /\ hist' = [hist EXCEPT !.corrupt = @ + 1]
    /\ UNCHANGED <<event_loop_vars, signing, valid_validators, dkg_request_mapping, dkg_session_receiver,
                   pc, dkg_state, futures, responses, signer_sessions>>

----------------------------------------------------------------------------
(* One signing sub-session (one SubSessionId) for the key of the session:  *)
(* Round1 (commit) -> Round2 (share) -> Completed, each round collected    *)
(* from every signer of the subset and retried when a response is missing  *)

\* the subset: lowest identifiers first, threshold many
SigningSubset == {i \in Identifiers : Cardinality({j \in Identifiers : j < i}) < min_signers}

NoNonces == [st |-> "none"]

\* signer, Sign Round1: the key share must exist; commit and store the nonces
sign_round1(has_key, nonces, r) ==
    IF ~has_key THEN Err("InvalidRequest")
    ELSE [ok |-> TRUE, nonces |-> [st |-> "held", nonce |-> r],
          value |-> [tag |-> "Commitments", nonce |-> r]]

\* (variant: the share is computed from whatever nonces the signer still
\* has, and they are kept)
sign_round2_reusing(nonces, commitments) ==
    IF nonces.st = "none" THEN Err("InvalidRequest")
    ELSE [ok |-> TRUE, nonces |-> [st |-> "held", nonce |-> nonces.nonce],
          value |-> [tag |-> "Share", nonce |-> nonces.nonce,
                     commitments |-> commitments]]

\* signer, Sign Round2: the sub-session must be in Round1; the share is
\* computed and the nonces are deleted
sign_round2(nonces, commitments) ==
    IF nonces.st # "held" THEN Err("InvalidRequest")
    ELSE [ok |-> TRUE, nonces |-> [st |-> "deleted"],
          value |-> [tag |-> "Share", nonce |-> nonces.nonce,
                     commitments |-> commitments]]

\* aggregate and verify: every share was made with the nonces committed to
verify(shares, commitments) ==
    \A i \in DOMAIN shares :
        /\ shares[i].commitments = commitments
        /\ shares[i].nonce = commitments[i].nonce

SigningInit ==
    [pc |-> "top", round |-> "Round1", replies |-> EmptyMap,
     commitments |-> EmptyMap, emitted |-> {}, retried |-> {},
     nonces |-> [i \in SigningSubset |-> NoNonces],
     shares |-> [i \in SigningSubset |-> 0], signatures |-> 0]

\* top of the signing loop, once the key exists: deliver when completed,
\* else send the round's request to every signer of the subset
SignLoopTop ==
    /\ pc = "done"
    /\ signing.pc = "top"
    /\ signing' =
          IF signing.round = "Completed" THEN [signing EXCEPT !.pc = "done"]
          ELSE [signing EXCEPT
                  !.pc = "collect", !.replies = EmptyMap,
                  !.emitted = @ \cup {signing.round},
                  !.retried = IF signing.round \in signing.emitted
                              THEN @ \cup {signing.round} ELSE @]
    /\ UNCHANGED <<event_loop_vars, valid_validators, dkg_request_mapping, dkg_session_receiver,
                   net, pc, dkg_state, futures, responses, signer_sessions, hist, side_vars>>

\* the request of the round reaches signer i and is answered; `missing`:
\* the response does not arrive and a failure stands in its place
SignExchange(i, r, missing) ==
    /\ signing.pc = "collect"
    /\ i \in SigningSubset \ DOMAIN signing.replies
    /\ missing => hist.timeouts + hist.corrupt < MaxFaults
    /\ LET session == signer_sessions[participants[i]]
           has_key == session.exists /\ session.dkg_state.round = "Completed"
           res == CASE missing -> Err("Missing")
                    [] signing.round = "Round1" ->
                          sign_round1(has_key, signing.nonces[i], r)
                    [] OTHER -> sign_round2(signing.nonces[i], signing.commitments)
           replies == Put(signing.replies, i, res)
       IN signing' = [signing EXCEPT
              !.replies = replies,
              !.nonces[i] = IF res.ok THEN res.nonces ELSE @,
              !.shares[i] = IF res.ok /\ signing.round = "Round2" THEN Bump(@) ELSE @,
              !.pc = IF DOMAIN replies = SigningSubset THEN "handle" ELSE "collect"]
    /\ UNCHANGED side_vars
    /\ hist' = IF missing THEN [hist EXCEPT !.corrupt = @ + 1] ELSE hist
    /\ UNCHANGED <<event_loop_vars, valid_validators, dkg_request_mapping, dkg_session_receiver,
                   net, pc, dkg_state, futures, responses, signer_sessions>>

\* all responses of the attempt are in: advance (Round2: aggregate, verify,
\* and the signature exists), or sleep and retry the round
SignHandle ==
    /\ signing.pc = "handle"
    /\ signing' =
          IF \E i \in DOMAIN signing.replies : ~signing.replies[i].ok
          THEN [signing EXCEPT !.pc = "sleep"]
          ELSE IF signing.round = "Round1"
          THEN [signing EXCEPT
                  !.pc = "top", !.round = "Round2",
                  !.commitments = [i \in SigningSubset |-> signing.replies[i].value]]
          ELSE IF verify([i \in SigningSubset |-> signing.replies[i].value],
                         signing.commitments)
          THEN [signing EXCEPT
                  !.pc = "top", !.round = "Completed", !.signatures = Bump(@)]
          ELSE [signing EXCEPT !.pc = "failed"]
    /\ UNCHANGED <<event_loop_vars, valid_validators, dkg_request_mapping, dkg_session_receiver,
                   net, pc, dkg_state, futures, responses, signer_sessions, hist, side_vars>>

SignRetry ==
    /\ signing.pc = "sleep"
    /\ signing' = [signing EXCEPT !.pc = "top"]
    /\ UNCHANGED <<event_loop_vars, valid_validators, dkg_request_mapping, dkg_session_receiver,
                   net, pc, dkg_state, futures, responses, signer_sessions, hist, side_vars>>

----------------------------------------------------------------------------
(* The coordinator's DKG sessions: Session::new, and the session manager   *)
(* creating a session for a NewKey instruction                              *)

\* SessionId::new(crypto_type, min_signers, &participants_map): the digest of
\* ciphersuite, threshold, the participants in the order of the map (by
\* identifier) and a salt
SessionIdNew(crypto_type, minsigners, participants_map) ==
    [sha256 |-> <<crypto_type, minsigners, participants_map, "salt">>]

\* `participants_map.values().any(|_identity| _identity == &identity)`
identity_taken(map, identity) == \E id \in DOMAIN map : map[id] = identity

\* Session::new, the loop `for (id, identity) in participants`
RECURSIVE insert_participants(_, _)
insert_participants(list, map) ==
    IF list = <<>> THEN [ok |-> TRUE, map |-> map]
    ELSE LET id == Head(list)[1]
             identity == Head(list)[2]
         IN IF id \in DOMAIN map THEN Err("InvalidParticipants")
            ELSE IF identity_taken(map, identity) THEN Err("InvalidParticipants")
            ELSE insert_participants(Tail(list), Put(map, id, identity))

\* Session::new(crypto_type, participants, min_signers, dkg_sender)
SessionNew(crypto_type, list, minsigners) ==
    LET inserted == insert_participants(list, EmptyMap)
    IN IF ~inserted.ok THEN inserted
       ELSE IF Cardinality(DOMAIN inserted.map) < minsigners
       THEN Err("InvalidMinSigners")
       ELSE IF Cardinality(DOMAIN inserted.map) > MaxParticipants
       THEN Err("InvalidParticipants")
       ELSE [ok |-> TRUE,
             session |->
                [session_id |-> SessionIdNew(crypto_type, minsigners, inserted.map),
                 crypto_type |-> crypto_type,
                 min_signers |-> minsigners,
                 participants |-> inserted.map,
                 dkg_state |-> DKGStateNew(crypto_type)]]

\* the pairs (identifier, identity) of an instruction's participants
Pairs(enumerated) == [i \in DOMAIN enumerated |-> <<i, enumerated[i]>>]

\* the session manager takes a NewKey instruction: Session::new; an error
\* goes back on the instruction's oneshot, a session whose SessionId is
\* already known is joined, a new one is stored and started
ManagerNewKey ==
    /\ instruction_sender # <<>>
    /\ Head(instruction_sender).kind = "NewKey"
    /\ LET instruction == Head(instruction_sender)
           res == SessionNew(instruction.crypto_type,
                             Pairs(instruction.participants),
                             instruction.min_signers)
       IN /\ instruction_sender' = Tail(instruction_sender)
          /\ sessions' =
                IF ~res.ok THEN sessions
                ELSE IF res.session.session_id \in DOMAIN sessions
                THEN [sessions EXCEPT
                        ![res.session.session_id].attached = @ \cup {instruction}]
                ELSE Put(sessions, res.session.session_id,
                         [session |-> res.session, attached |-> {instruction}])
          /\ futures_for_node' =
                {IF f.channel = instruction.oneshot /\ ~res.ok
                 THEN [f EXCEPT !.result = forward_result("err")] ELSE f :
                    f \in futures_for_node}
    /\ UNCHANGED <<signer_whitelist, auto_dkg, p2ppeerid_2_endpoint, last_response,
                   other_mappings, final_channels, event_loop, node_answers,
                   auto_vars>>
    /\ UNCHANGED <<signing, valid_validators, dkg_request_mapping,
                   dkg_session_receiver, net, pc, dkg_state, futures, responses,
                   signer_sessions, hist, list_hash_calls, auto_dkg_lock, lock_pc>>

----------------------------------------------------------------------------
(* The lock around the auto-DKG state *)

\* the users of the lock: the event loop and the tasks it spawned
LockUsers == {"event_loop"} \cup CryptoTypes
Unlocked == [writer |-> "none", readers |-> {}]

\* the mode a user asks the lock for where it stands: `read().await` in
\* handle_vi_request, in the AutoDKGRequest arm and in a task's loop,
\* `write().await` before register_signer and before update_new_dkg_result
Wants(pos) ==
    CASE pos \in {"vi_read", "query_read", "task_read"} -> "read"
      [] pos \in {"vi_write", "task_write"} -> "write"
      [] OTHER -> "none"

\* (variant: the block of `if let Some(participants) = auto_dkg.write().await
\* .register_signer(..)` reads min_signers through the lock)
held_after_reading_in_block(pos) ==
    CASE pos = "vi_read" -> "vi_reading"
      [] pos = "query_read" -> "query_reading"
      [] pos = "task_read" -> "task_reading"
      [] pos = "vi_write" -> "vi_read"
      [] pos = "task_write" -> "task_updating"

\* where a user stands once the lock was granted: it holds the guard
held_after(pos) ==
    CASE pos = "vi_read" -> "vi_reading"
      [] pos = "query_read" -> "query_reading"
      [] pos = "task_read" -> "task_reading"
      [] pos = "vi_write" -> "vi_registering"
      [] pos = "task_write" -> "task_updating"

\* where a user stands once its guard is dropped: at the end of the
\* statement (the reads), of the `if let` block (the writes)
dropped_after(pos) ==
    CASE pos = "vi_reading" -> "vi_write"
      [] pos = "query_reading" -> "idle"
      [] pos = "task_reading" -> "await"
      [] pos = "vi_registering" -> "idle"
      [] pos = "task_updating" -> "done"

\* the users that hold a guard of the lock
Holders == auto_dkg_lock.readers \cup ({auto_dkg_lock.writer} \ {"none"})

\* tokio::sync::RwLock is fair and write-preferring: a reader is let in
\* when no writer holds the lock or waits for it, a writer when nobody
\* holds it
Grantable(mode) ==
    IF mode = "read"
    THEN /\ auto_dkg_lock.writer = "none"
         /\ \A u \in LockUsers : Wants(lock_pc[u]) # "write"
    ELSE auto_dkg_lock.writer = "none" /\ auto_dkg_lock.readers = {}

\* what the users of the lock leave alone
LockFrame ==
    UNCHANGED <<valid_validators, dkg_request_mapping, dkg_session_receiver, net,
                pc, dkg_state, futures, responses, signer_sessions, signing,
                hist, event_loop_vars, sessions, list_hash_calls>>

\* the event loop takes a registration (handle_vi_request with auto-DKG
\* configured) or a node's AutoDKGRequest
LockEvent(pos) ==
    /\ lock_pc["event_loop"] = "idle"
    /\ pos \in {"vi_read", "query_read"}
    /\ lock_pc' = [lock_pc EXCEPT !["event_loop"] = pos]
    /\ UNCHANGED auto_dkg_lock
    /\ LockFrame

\* `.read().await` or `.write().await` returns the guard
LockAcquire(u) ==
    /\ Wants(lock_pc[u]) # "none"
    /\ Grantable(Wants(lock_pc[u]))
    /\ auto_dkg_lock' =
          IF Wants(lock_pc[u]) = "read"
          THEN [auto_dkg_lock EXCEPT !.readers = @ \cup {u}]
          ELSE [auto_dkg_lock EXCEPT !.writer = u]
    /\ lock_pc' = [lock_pc EXCEPT ![u] = held_after(lock_pc[u])]
    /\ LockFrame

\* register_signer has returned the participants: inside the block, the
\* write guard still held, one task per ciphersuite is spawned
LockSpawn ==
    /\ lock_pc["event_loop"] = "vi_registering"
    /\ \A ct \in CryptoTypes : lock_pc[ct] = "idle"
    /\ lock_pc' = [u \in LockUsers |->
                      IF u \in CryptoTypes THEN "task_read" ELSE lock_pc[u]]
    /\ UNCHANGED auto_dkg_lock
    /\ LockFrame

\* the guard is dropped
LockRelease(u) ==
    /\ u \in Holders
    /\ Wants(lock_pc[u]) = "none"
    /\ auto_dkg_lock' =
          [writer |-> IF auto_dkg_lock.writer = u THEN "none"
                      ELSE auto_dkg_lock.writer,
           readers |-> auto_dkg_lock.readers \ {u}]
    /\ lock_pc' = [lock_pc EXCEPT ![u] = dropped_after(lock_pc[u])]
    /\ LockFrame

\* the result of the task's NewKey is there: Ok(Ok(pkid)) is recorded under
\* the write lock, anything else makes the task sleep
LockTaskResult(ct, ok) ==
    /\ lock_pc[ct] = "await"
    /\ lock_pc' = [lock_pc EXCEPT ![ct] = IF ok THEN "task_write" ELSE "sleep"]
    /\ UNCHANGED auto_dkg_lock
    /\ LockFrame

\* the sleep is over: the loop reads min_signers again
LockTaskRetry(ct) ==
    /\ lock_pc[ct] = "sleep"
    /\ lock_pc' = [lock_pc EXCEPT ![ct] = "task_read"]
    /\ UNCHANGED auto_dkg_lock
    /\ LockFrame

----------------------------------------------------------------------------
(* The system *)

HistInit ==
    [emitted |-> {}, request_count |-> [i \in Identifiers |-> 0],
     accepted |-> EmptyMap, completions |-> 0, rejected |-> {}, retried |-> {},
     timeouts |-> 0, corrupt |-> 0, keys_stored |-> [s \in Identities |-> 0]]

\* a session has been created (Session::new) and its task spawned
InitConfigured(validators, whitelist, auto) ==
    /\ valid_validators = validators
    /\ dkg_request_mapping = EmptyMap
    /\ dkg_session_receiver = <<>>
    /\ net = {}
    /\ pc = "top"
    /\ \E ct \in SessionCryptoTypes : dkg_state = DKGStateNew(ct)
    /\ futures = EmptyMap
    /\ responses = EmptyMap
    /\ signer_sessions = [s \in Identities |-> NoSession]
    /\ signing = SigningInit
    /\ hist = HistInit
    /\ signer_whitelist = whitelist
    /\ auto_dkg = auto
    /\ p2ppeerid_2_endpoint = EmptyMap
    /\ instruction_sender = <<>>
    /\ last_response = NoResponse
    /\ signing_request_mapping = EmptyMap
    /\ dkg_request_mapping_ex = EmptyMap
    /\ signing_request_mapping_ex = EmptyMap
    /\ dkg_in_final_channel = <<>>
    /\ signing_in_final_channel = <<>>
    /\ event_loop = "running"
    /\ futures_for_node = {}
    /\ node_answers = EmptyMap
    /\ auto_dkg_tasks = [ct \in CryptoTypes |-> NoTask]
    /\ auto_dkg_file = NoFile
    /\ sessions = EmptyMap
    /\ list_hash_calls = {}
    /\ auto_dkg_lock = Unlocked
    /\ lock_pc = [u \in LockUsers |-> "idle"]

\* a coordinator without whitelist and auto-DKG
InitWith(validators) == InitConfigured(validators, NoWhitelist, NoAutoDKG)

\* no signer has registered yet
Init == InitWith([s \in Identities |-> NoValidator])

Next ==
    \/ SessionLoopTop
    \/ \E c \in Identifiers : SessionCollect(c)
    \/ SessionHandle
    \/ SessionRetry
    \/ HandleDkgRequest
    \/ \E m \in net : HandleDkgResponse(m)
    \/ \E m \in net : HandleOutboundFailure(m)
    \/ \E s \in Identities : RegisterSigner(s)
    \/ \E m \in net, r \in RngValues : SignerHandleRequest(m, r)
    \/ \E m \in net : \E forged \in Forgeries(m) : SignerMisbehaves(m, forged)
    \/ SignLoopTop
    \/ \E i \in SigningSubset, r \in RngValues, missing \in BOOLEAN :
          SignExchange(i, r, missing)
    \/ SignHandle
    \/ SignRetry

Spec == Init /\ [][Next]_vars

\* The processes of the system: the session task is a spawned tokio task, the
\* event loop a select! loop, each signer a process of its own; each keeps
\* taking steps while it can.
SessionStep ==
    SessionLoopTop \/ (\E c \in Identifiers : SessionCollect(c)) \/ SessionHandle
       \/ SessionRetry
EventLoopStep == HandleDkgRequest \/ (\E m \in net : HandleDkgResponse(m))
SignerStep == \E m \in net, r \in RngValues : SignerHandleRequest(m, r)
Registration == \E s \in Identities : RegisterSigner(s)
Fairness ==
    /\ WF_vars(SessionStep) /\ WF_vars(EventLoopStep)
    /\ WF_vars(SignerStep) /\ WF_vars(Registration)

\* Honest run: every signer is registered before the session starts, every
\* request is answered, nothing is lost or forged.
InitHonest == InitWith([s \in Identities |-> Validator(PeerOf(s), 1, NoAddress)])

NextHonest ==
    \/ SessionLoopTop
    \/ \E c \in Identifiers : SessionCollect(c)
    \/ SessionHandle
    \/ HandleDkgRequest
    \/ \E m \in net : HandleDkgResponse(m)
    \/ \E m \in net, r \in RngValues : SignerHandleRequest(m, r)

SpecHonest == InitHonest /\ [][NextHonest]_vars /\ WF_vars(NextHonest)

\* Signers that register late, every signer honest and every request answered.
NextRecover ==
    \/ SessionLoopTop
    \/ \E c \in Identifiers : SessionCollect(c)
    \/ SessionHandle
    \/ SessionRetry
    \/ HandleDkgRequest
    \/ \E m \in net : HandleDkgResponse(m)
    \/ \E s \in Identities : RegisterSigner(s)
    \/ \E m \in net, r \in RngValues : SignerHandleRequest(m, r)

SpecRecover == Init /\ [][NextRecover]_vars /\ Fairness

\* As SpecRecover, and a request may get no response within the timeout.
NextLossy ==
    \/ SessionLoopTop
    \/ \E c \in Identifiers : SessionCollect(c)
    \/ SessionHandle
    \/ SessionRetry
    \/ HandleDkgRequest
    \/ \E m \in net : HandleDkgResponse(m)
    \/ \E m \in net : HandleOutboundFailure(m)
    \/ \E s \in Identities : RegisterSigner(s)
    \/ \E m \in net, r \in RngValues : SignerHandleRequest(m, r)

SpecLossy == Init /\ [][NextLossy]_vars /\ Fairness

----------------------------------------------------------------------------
(* One signer facing arbitrary DKG requests on the coor2sig protocol *)

SignerUnderTest == IdentityOf(1)
PoolCryptoTypes == {"Ed25519", "Secp256k1"}
PoolIdentifiers == {0, 1, 2}
PoolIdentities == {IdentityOf(1), IdentityOf(2)}

\* round-1 package maps: complete or with one participant missing
PoolRound1 ==
    {[j \in S |-> Round1Package(ct, j, r)] :
        ct \in PoolCryptoTypes, r \in RngValues,
        S \in {Identifiers, Identifiers \ {3}}}

\* round-2 packages addressed to participant i
PoolRound2(i) ==
    {[j \in Identifiers \ {i} |-> Round2Package(ct, j, i, r)] :
        ct \in PoolCryptoTypes, r \in RngValues}

\* a participants map that lists the reserved identifier 0
ZeroParticipants == [i \in {0, 1} |-> IdentityOf(i + 1)]

RequestPool ==
    {Part1Request(ct, i, identity) :
        ct \in PoolCryptoTypes, i \in PoolIdentifiers, identity \in PoolIdentities}
    \cup {[Part1Request(ct, i, identity) EXCEPT !.participants = ZeroParticipants,
                                                !.max_signers = 2] :
        ct \in PoolCryptoTypes, i \in PoolIdentifiers, identity \in PoolIdentities}
    \cup {Part2Request(ct, i, identity, r1) :
        ct \in PoolCryptoTypes, i \in PoolIdentifiers, identity \in PoolIdentities,
        r1 \in PoolRound1}
    \cup UNION {{GenPublicKeyRequest(ct, i, identity, r1, r2) :
                    ct \in PoolCryptoTypes, identity \in PoolIdentities,
                    r1 \in PoolRound1, r2 \in PoolRound2(i)} :
                i \in PoolIdentifiers}

\* a DKG request arrives at the signer
RequestArrives(request) ==
    /\ net = {}
    /\ net' = {Request(1, PeerOf(SignerUnderTest), request)}
    /\ UNCHANGED <<event_loop_vars, signing, valid_validators, dkg_request_mapping, dkg_session_receiver,
                   pc, dkg_state, futures, responses, signer_sessions, hist, side_vars>>

\* the signer's response has left
ResponseLeaves(m) ==
    /\ m \in net
    /\ m.type = "response"
    /\ net' = net \ {m}
    /\ UNCHANGED <<event_loop_vars, signing, valid_validators, dkg_request_mapping, dkg_session_receiver,
                   pc, dkg_state, futures, responses, signer_sessions, hist, side_vars>>

NextSigner ==
    \/ \E request \in RequestPool : RequestArrives(request)
    \/ \E m \in net, r \in RngValues : SignerHandleRequest(m, r)
    \/ \E m \in net : ResponseLeaves(m)

SpecSigner == Init /\ [][NextSigner]_vars

----------------------------------------------------------------------------
(* The coordinator facing arbitrary registrations on the sig2coor protocol *)

RegIdentities == {IdentityOf(1), IdentityOf(2)}
RegPeers == {PeerOf(IdentityOf(1)), NewPeer}
Nonces == {5, 7}
Addresses == {1}
\* the whitelist of the configurations that have one
Whitelisted == {IdentityOf(1)}

\* the signatures the signers ever made: for either peer at this
\* coordinator, the first signer's also at another coordinator
SignaturePool ==
    {Sign(PublicKeyOf(i), register_hash(i, p, CoordinatorPeer)) :
        i \in RegIdentities, p \in RegPeers}
    \cup {Sign(PublicKeyOf(IdentityOf(1)),
               register_hash(IdentityOf(1), p, OtherCoordinatorPeer)) :
            p \in RegPeers}

\* registrations carrying one of these signatures, one carrying a signature
\* that no key made, and one whose public key does not parse
RegistrationPool ==
    {ValidatorIdentityRequest(sig, PublicKeyOf(i), n) :
        sig \in SignaturePool \cup {BadSignature}, i \in RegIdentities,
        n \in Nonces}
    \cup {ValidatorIdentityRequest(BadSignature, InvalidPublicKey, n) :
            n \in Nonces}

Configurations ==
    {<<NoWhitelist, NoAutoDKG>>, <<Whitelist(Whitelisted), NoAutoDKG>>,
     <<Whitelist(Whitelisted), AutoDKG(Whitelisted)>>}

InitRegister ==
    \E cfg \in Configurations :
        InitConfigured([s \in Identities |-> NoValidator], cfg[1], cfg[2])

NextRegister ==
    \/ \E peer \in RegPeers, request \in RegistrationPool :
          HandleValidatorIdentity(peer, request)
    \/ \E peer \in RegPeers, address \in Addresses :
          ConnectionEstablished(peer, address)

SpecRegister == InitRegister /\ [][NextRegister]_vars

----------------------------------------------------------------------------
(* The coordinator facing arbitrary requests on the node2coor protocol *)

\* a participant list of the session under study, and one that is too long
ParticipantLists ==
    {<<IdentityOf(1), IdentityOf(2), IdentityOf(3)>>,
     [i \in 1..(MaxParticipants + 1) |-> IdentityOf(1)]}

NodeInstructions ==
    {[kind |-> "DKGRequest", crypto_type |-> "Ed25519", participants |-> list,
      min_signers |-> min_signers] : list \in ParticipantLists}
    \cup {[kind |-> "SigningRequest", pkid |-> 1, msg |-> 1],
          [kind |-> "LsPkRequest"], [kind |-> "AutoDKGRequest"],
          [kind |-> "PkTweakRequest", pkid |-> 1]}

\* validator identities of nodes: signed for either peer, or not signed
NodeIdentityPool ==
    UNION {{ValidatorIdentityRequest(sig, PublicKeyOf(i), 5) :
               sig \in {Sign(PublicKeyOf(i), register_hash(i, p, CoordinatorPeer)) :
                           p \in RegPeers} \cup {BadSignature}} :
           i \in RegIdentities}

NextNode ==
    \/ \E peer \in RegPeers, vi \in NodeIdentityPool, i \in NodeInstructions :
          HandleNodeRequest(peer, NodeRequest(vi, i))
    \/ ManagerReceives
    \/ \E f \in futures_for_node : NodeResponseReady(f)

SpecNode == InitRegister /\ [][NextNode]_vars

----------------------------------------------------------------------------
(* Routing: a signer that re-registers from a new peer (scenario S4), the   *)
(* sessions' requests for it, and responses from either peer                *)

RoutedIdentity == IdentityOf(1)

\* the signer's registration from `peer` with `nonce`
RegistrationFrom(peer, nonce) ==
    ValidatorIdentityRequest(
        Sign(PublicKeyOf(RoutedIdentity),
             register_hash(RoutedIdentity, peer, CoordinatorPeer)),
        PublicKeyOf(RoutedIdentity), nonce)

\* first from its peer with nonce 5, then from the new peer with nonce 7
S4Registrations == {<<PeerOf(RoutedIdentity), 5>>, <<NewPeer, 7>>}

\* the oneshot channels of the sessions' requests
SigningOneshot == 2
DkgExOneshot == 3
SigningExOneshot == 4

\* the DKG session hands a Part1 request to the event loop
DkgSessionSends ==
    /\ 1 \notin DOMAIN futures
    /\ futures' = Put(futures, 1, Pending)
    /\ dkg_session_receiver' =
          Append(dkg_session_receiver,
                 [request |-> Part1Request("Ed25519", 1, RoutedIdentity),
                  sender |-> 1])
    /\ UNCHANGED <<event_loop_vars, signing, valid_validators, dkg_request_mapping,
                   net, pc, dkg_state, responses, signer_sessions, hist, side_vars>>

\* the response of a signer to a request
AnswerTo(request) ==
    CASE request.kind = "Part1" ->
            Response("Part1", request,
                     Round1Package(request.crypto_type, request.identifier, 0))
      [] request.kind = "SigningRequest" ->
            [variant |-> "SigningResponse", identity |-> request.identity]
      [] request.kind = "DKGRequestEx" ->
            [variant |-> "DKGResponseEx", identity |-> request.identity]
      [] request.kind = "SigningRequestEx" ->
            [variant |-> "SigningResponseEx", identity |-> request.identity]

\* a response to the request m arrives from `peer`: from the peer the
\* request went to, or from another peer that names the request's id
PeerResponds(m, peer) ==
    /\ m \in net
    /\ m.type = "request"
    /\ net' = IF peer = m.peer
              THEN (net \ {m}) \cup {Reply(m.rid, peer, AnswerTo(m.body))}
              ELSE net \cup {Reply(m.rid, peer, AnswerTo(m.body))}
    /\ UNCHANGED <<event_loop_vars, signing, valid_validators, dkg_request_mapping,
                   dkg_session_receiver, pc, dkg_state, futures, responses,
                   signer_sessions, hist, side_vars>>

\* the four kinds of session requests for the signer reach the event loop
SessionRequests ==
    \/ DkgSessionSends
    \/ HandleDkgRequest
    \/ HandleSigningRequest(SessionRequest("SigningRequest", RoutedIdentity),
                            SigningOneshot)
    \/ HandleDkgRequestEx(SessionRequest("DKGRequestEx", RoutedIdentity),
                          DkgExOneshot)
    \/ HandleSigningRequestEx(SessionRequest("SigningRequestEx", RoutedIdentity),
                              SigningExOneshot)

\* the signer answers an extended DKG request with a response of the signing
\* variant
AnswersOtherVariant(m) ==
    /\ m \in net
    /\ m.type = "request"
    /\ m.body.kind = "DKGRequestEx"
    /\ net' = (net \ {m}) \cup
                {Reply(m.rid, m.peer,
                       [variant |-> "SigningResponse", identity |-> m.body.identity])}
    /\ UNCHANGED <<event_loop_vars, signing, valid_validators, dkg_request_mapping,
                   dkg_session_receiver, pc, dkg_state, futures, responses,
                   signer_sessions, hist, side_vars>>

NextRouting ==
    \/ \E r \in S4Registrations :
          HandleValidatorIdentity(r[1], RegistrationFrom(r[1], r[2]))
    \/ SessionRequests

SpecRouting == Init /\ [][NextRouting]_vars

\* the signer is registered; responses arrive from its peer and from another
NextResponses ==
    \/ SessionRequests
    \/ \E m \in net, peer \in RegPeers : PeerResponds(m, peer)
    \/ \E m \in net : AnswersOtherVariant(m)
    \/ \E m \in net : HandleDkgResponse(m)
    \/ \E m \in net : HandleSigningResponse(m)
    \/ \E m \in net : HandleDkgResponseEx(m)
    \/ \E m \in net : HandleSigningResponseEx(m)
    \/ \E m \in net : ResponsePanics(m)

SpecResponses == InitHonest /\ [][NextResponses]_vars

----------------------------------------------------------------------------
(* The coordinator facing arbitrary envelopes on the extended path *)

\* signers 1 and 2 are registered, signer 3 is not
InitRelay ==
    InitWith([s \in Identities |->
                 IF s = IdentityOf(3) THEN NoValidator
                 ELSE Validator(PeerOf(s), 1, NoAddress)])

ExKinds == {"DKGRequestEx", "SigningRequestEx"}
\* participant 4 is not in the envelope's participants
ExTargets == {Target(2), Target(3), Target(4), Broadcast}

EnvelopePool ==
    {Envelope(kind, FALSE, "Init", 1, NoTarget) : kind \in ExKinds}
    \cup {Envelope(kind, TRUE, stage, 1, NoTarget) :
            kind \in ExKinds, stage \in {"Init", "Final"}}
    \cup {Envelope(kind, TRUE, "Intermediate", from, target) :
            kind \in ExKinds, from \in {1, 2}, target \in ExTargets}

\* the connection of signer 1, and one of a peer that never registered
ExPeers == {PeerOf(IdentityOf(1)), NewPeer}

\* the transport has delivered a relayed request to its signer
RelayDelivered(m) ==
    /\ m \in net
    /\ net' = net \ {m}
    /\ UNCHANGED <<event_loop_vars, signing, valid_validators, dkg_request_mapping,
                   dkg_session_receiver, pc, dkg_state, futures, responses,
                   signer_sessions, hist, side_vars>>

\* an extended session takes a final message from its channel
FinalReceived ==
    /\ \/ /\ dkg_in_final_channel # <<>>
          /\ dkg_in_final_channel' = Tail(dkg_in_final_channel)
          /\ UNCHANGED signing_in_final_channel
       \/ /\ signing_in_final_channel # <<>>
          /\ signing_in_final_channel' = Tail(signing_in_final_channel)
          /\ UNCHANGED dkg_in_final_channel
    /\ UNCHANGED <<signer_whitelist, auto_dkg, p2ppeerid_2_endpoint,
                   instruction_sender, last_response, other_mappings, event_loop, node_vars, auto_vars>>
    /\ UNCHANGED <<signing, valid_validators, dkg_request_mapping,
                   dkg_session_receiver, net, pc, dkg_state, futures, responses,
                   signer_sessions, hist, side_vars>>

NextRelay ==
    \/ \E peer \in ExPeers, envelope \in EnvelopePool : HandleRequestEx(peer, envelope)
    \/ \E m \in net : RelayDelivered(m)
    \/ FinalReceived

SpecRelay == InitRelay /\ [][NextRelay]_vars

----------------------------------------------------------------------------
(* The response channels of inbound requests: registrations, envelopes and  *)
(* node requests in one run                                                  *)

\* signers 1 and 2 are registered and whitelisted, signer 3 is neither
InitChannels ==
    InitConfigured([s \in Identities |->
                       IF s = IdentityOf(3) THEN NoValidator
                       ELSE Validator(PeerOf(s), 1, NoAddress)],
                   Whitelist({IdentityOf(1), IdentityOf(2)}), NoAutoDKG)

\* registrations: accepted (nothing new to store), not whitelisted, badly
\* signed, undecodable key
ChannelRegistrations ==
    {ValidatorIdentityRequest(
         Sign(PublicKeyOf(i), register_hash(i, PeerOf(i), CoordinatorPeer)),
         PublicKeyOf(i), 1) : i \in {IdentityOf(1), IdentityOf(3)}}
    \cup {ValidatorIdentityRequest(BadSignature, PublicKeyOf(IdentityOf(1)), 1),
          ValidatorIdentityRequest(BadSignature, InvalidPublicKey, 1)}

\* envelopes of participant 1: every stage and target on the DKG path, an
\* undecodable one, and Init and Final on the signing path
ChannelEnvelopes ==
    {e \in EnvelopePool :
        /\ e.from = 1
        /\ e.kind = "SigningRequestEx" => e.decodes /\ e.stage # "Intermediate"}

\* node requests: every instruction, and one with a bad signature
ChannelNodeRequests ==
    {NodeRequest(ValidatorIdentityRequest(
                     Sign(PublicKeyOf(IdentityOf(1)),
                          register_hash(IdentityOf(1), PeerOf(IdentityOf(1)),
                                        CoordinatorPeer)),
                     PublicKeyOf(IdentityOf(1)), 5), i) : i \in NodeInstructions}
    \cup {NodeRequest(ValidatorIdentityRequest(BadSignature,
                                               PublicKeyOf(IdentityOf(1)), 5),
                      [kind |-> "LsPkRequest"])}

NextChannels ==
    \/ \E request \in ChannelRegistrations :
          HandleValidatorIdentity(PeerOf(to_identity(request.public_key)), request)
    \/ \E envelope \in ChannelEnvelopes :
          HandleRequestEx(PeerOf(IdentityOf(1)), envelope)
    \/ \E m \in net : RelayDelivered(m)
    \/ FinalReceived
    \/ \E request \in ChannelNodeRequests :
          HandleNodeRequest(PeerOf(IdentityOf(1)), request)
    \/ ManagerReceives
    \/ \E f \in futures_for_node : NodeResponseReady(f)

SpecChannels == InitChannels /\ [][NextChannels]_vars

----------------------------------------------------------------------------
(* Auto-DKG (scenario S6): whitelist {A, B, C}, the signers register, the    *)
(* tasks run their NewKey against a session manager that may fail, the      *)
(* process may restart, and key generation is also asked for by hand        *)

InitAuto ==
    InitConfigured([s \in Identities |-> NoValidator], Whitelist(Identities),
                   AutoDKG(Identities))

\* every signer registers from its peer; signer 1 also from a new peer
AutoRegistrations ==
    {<<PeerOf(s), ValidatorIdentityRequest(
                     Sign(PublicKeyOf(s), register_hash(s, PeerOf(s), CoordinatorPeer)),
                     PublicKeyOf(s), 5)>> : s \in Identities}
    \cup {<<NewPeer, ValidatorIdentityRequest(
                        Sign(PublicKeyOf(IdentityOf(1)),
                             register_hash(IdentityOf(1), NewPeer, CoordinatorPeer)),
                        PublicKeyOf(IdentityOf(1)), 7)>>}

\* a node asks for a key
ManualDkgRequest ==
    NodeRequest(ValidatorIdentityRequest(
                    Sign(PublicKeyOf(IdentityOf(1)),
                         register_hash(IdentityOf(1), PeerOf(IdentityOf(1)),
                                       CoordinatorPeer)),
                    PublicKeyOf(IdentityOf(1)), 5),
                [kind |-> "DKGRequest", crypto_type |-> "Ed25519",
                 participants |-> <<IdentityOf(1), IdentityOf(2), IdentityOf(3)>>,
                 min_signers |-> min_signers])

NextAuto ==
    \/ \E r \in AutoRegistrations : HandleValidatorIdentity(r[1], r[2])
    \/ \E ct \in CryptoTypes : AutoTaskSend(ct)
    \/ ManagerReceives
    \/ \E ct \in CryptoTypes : AutoTaskResult(ct)
    \/ \E ct \in CryptoTypes : AutoTaskWrite(ct)
    \/ \E ct \in CryptoTypes : AutoTaskRetry(ct)
    \/ Restart
    \/ HandleCommandStartDkg("Ed25519")
    \/ HandleNodeRequest(PeerOf(IdentityOf(1)), ManualDkgRequest)

SpecAuto == InitAuto /\ [][NextAuto]_vars

----------------------------------------------------------------------------
(* DKG requests of nodes with arbitrary participants and thresholds, and    *)
(* the sessions the session manager creates for them                        *)

\* the participant lists of the requests: permutations of each other, lists
\* differing in one member, a repeated identity, none, and one too long
SessionLists ==
    {<<>>, <<IdentityOf(1)>>, <<IdentityOf(1), IdentityOf(2)>>,
     <<IdentityOf(2), IdentityOf(1)>>, <<IdentityOf(1), IdentityOf(3)>>,
     <<IdentityOf(1), IdentityOf(1)>>,
     <<IdentityOf(1), IdentityOf(2), IdentityOf(3)>>,
     [i \in 1..(MaxParticipants + 1) |-> 1000 + i]}

Thresholds == 0..3

DkgRequests ==
    {[kind |-> "DKGRequest", crypto_type |-> ct, participants |-> list,
      min_signers |-> t] :
        ct \in {"Ed25519", "Secp256k1"}, list \in SessionLists, t \in Thresholds}

\* the node, its peer and the validator identity it signs its requests with
NodePeer == PeerOf(IdentityOf(1))
NodeIdentity ==
    ValidatorIdentityRequest(
        Sign(PublicKeyOf(IdentityOf(1)),
             register_hash(IdentityOf(1), NodePeer, CoordinatorPeer)),
        PublicKeyOf(IdentityOf(1)), 5)

NextSessions ==
    \/ \E i \in DkgRequests : HandleNodeRequest(NodePeer, NodeRequest(NodeIdentity, i))
    \/ ManagerNewKey
    \/ \E f \in futures_for_node : NodeResponseReady(f)

SpecSessions == Init /\ [][NextSessions]_vars

----------------------------------------------------------------------------
(* Calls of list_hash with arbitrary sequences of byte strings *)

HashItems == {<<>>, <<1>>, <<1, 2>>}
HashInputs == UNION {[1..n -> HashItems] : n \in 0..MaxItems}

NextListHash == \E data \in HashInputs : ListHashCall(data)

SpecListHash == Init /\ [][NextListHash]_vars

----------------------------------------------------------------------------
(* The users of the auto-DKG lock: registrations and queries in the event   *)
(* loop, and the three tasks with their retries                             *)

NextLock ==
    \/ \E pos \in {"vi_read", "query_read"} : LockEvent(pos)
    \/ \E u \in LockUsers : LockAcquire(u)
    \/ LockSpawn
    \/ \E u \in LockUsers : LockRelease(u)
    \/ \E ct \in CryptoTypes, ok \in BOOLEAN : LockTaskResult(ct, ok)
    \/ \E ct \in CryptoTypes : LockTaskRetry(ct)

\* a user that holds a guard runs on to the end of the statement or block
\* that drops it (nothing is awaited in between), and the lock's queue is
\* fair: a user that can be let in again and again is let in
LockFairness ==
    \A u \in LockUsers : WF_vars(LockRelease(u)) /\ SF_vars(LockAcquire(u))

SpecLock == Init /\ [][NextLock]_vars /\ LockFairness

----------------------------------------------------------------------------
(* The extended path with any set of participants registered *)

InitRelayAny ==
    \E registered \in SUBSET Identities :
        InitWith([s \in Identities |->
                     IF s \in registered THEN Validator(PeerOf(s), 1, NoAddress)
                     ELSE NoValidator])

SpecRelayAny == InitRelayAny /\ [][NextRelay]_vars

----------------------------------------------------------------------------
(* Properties of the coordinator-side DKG session *)

RoundSteps ==
    {<<"Part1", "Part2">>, <<"Part2", "GenPublicKey">>, <<"GenPublicKey", "Completed">>}
PackageTag(round) ==
    CASE round = "Part1" -> "Round1" [] round = "Part2" -> "Round2"
      [] round = "GenPublicKey" -> "PublicKey"
PreviousRound(round) ==
    CASE round = "Part2" -> "Part1" [] round = "GenPublicKey" -> "Part2"
      [] round = "Completed" -> "GenPublicKey"

\* resps holds, for every participant, a successful response of `round`
\* filed under that participant's identifier
FullyCollected(resps, round) ==
    /\ DOMAIN resps = DOMAIN participants
    /\ \A i \in DOMAIN participants :
          /\ resps[i].identifier = i
          /\ resps[i].kind # "Failure"
          /\ resps[i].crypto_package.tag = PackageTag(round)

\* C1: the state of the coordinator's DKG session only ever changes by one
\* step along Part1 -> Part2 -> GenPublicKey -> Completed: no round is
\* skipped and no earlier round is returned to, whatever responses, failures
\* and retries occur.
C1_LinearRounds ==
    [][dkg_state'.round # dkg_state.round
         => <<dkg_state.round, dkg_state'.round>> \in RoundSteps]_vars

\* the session completed although a round had been rejected and retried
C1_Witness ==
    /\ completed(dkg_state)
    /\ hist.retried # {}
    /\ hist.rejected # {}

\* C2: the round advances only in the step that follows the collection, and
\* only when the response map has an entry for every participant, each a
\* successful response under its own identifier; when a response is missing
\* at that point the session's next step keeps the state and sleeps, after
\* which it goes back to the top of the loop with the same state and sends
\* the round's request to every participant again.
C2_AdvanceNeedsAll ==
    [][/\ dkg_state'.round # dkg_state.round
            => pc = "handle" /\ FullyCollected(responses, dkg_state.round)
       /\ (pc = "handle" /\ pc' # pc /\ ~FullyCollected(responses, dkg_state.round))
            => pc' = "sleep" /\ dkg_state' = dkg_state
       /\ (pc = "sleep" /\ pc' # pc) => pc' = "top" /\ dkg_state' = dkg_state
       /\ (pc = "top" /\ pc' # pc /\ ~completed(dkg_state))
            => /\ pc' = "collect" /\ dkg_state' = dkg_state
               /\ \A i \in DOMAIN participants :
                     \E k \in DOMAIN dkg_session_receiver' :
                        LET q == dkg_session_receiver'[k].request
                        IN q.identifier = i /\ q.kind = dkg_state.round]_vars

\* Part2 is not entered and the session sleeps before a retry: one
\* participant's response is missing (a failure stands in its place), the
\* others answered
C2_Witness ==
    /\ pc = "sleep"
    /\ dkg_state.round = "Part1"
    /\ DOMAIN responses = DOMAIN participants
    /\ Cardinality({i \in DOMAIN responses : responses[i].kind = "Failure"}) = 1

\* C3: a request of round N+1 exists (handed to the event loop, queued, or
\* on its way to a signer) only after round N was fully collected: every
\* participant's successful response of round N was accepted.
C3_RoundOrder ==
    /\ \A e \in hist.emitted :
          e[1] # "Part1" =>
             /\ PreviousRound(e[1]) \in DOMAIN hist.accepted
             /\ FullyCollected(hist.accepted[PreviousRound(e[1])], PreviousRound(e[1]))
    /\ \A m \in net :
          (m.type = "request" /\ m.body.kind # "Part1") =>
             <<m.body.kind, m.body.identifier>> \in hist.emitted
    /\ \A k \in DOMAIN dkg_session_receiver :
          LET q == dkg_session_receiver[k].request
          IN <<q.kind, q.identifier>> \in hist.emitted

\* GenPublicKey requests are in flight after Part1 was retried
C3_Witness ==
    /\ \E m \in net : m.type = "request" /\ m.body.kind = "GenPublicKey"
    /\ "Part1" \in hist.retried

\* C4: in an honest run (every signer registered and answering every
\* request) the session reaches the end of its loop with the DKG completed;
\* it never sleeps for a retry, every signer was sent exactly three requests
\* (one Part1, one Part2, one GenPublicKey), and the group public key of
\* every signer's response, and the one every signer stored, is the same,
\* the session's.
C4_Completeness ==
    /\ <>(pc = "done")
    /\ [](pc # "sleep" /\ hist.retried = {})
    /\ [](pc = "done" =>
            /\ completed(dkg_state)
            /\ \A i \in DOMAIN participants :
                  /\ hist.request_count[i] = 3
                  /\ {<<"Part1", i>>, <<"Part2", i>>, <<"GenPublicKey", i>>}
                         \subseteq hist.emitted
                  /\ hist.accepted["GenPublicKey"][i].crypto_package
                         = dkg_state.public_key
                  /\ signer_sessions[participants[i]].dkg_state.public_key_package
                         = dkg_state.public_key)

\* the honest run has ended, the signers having drawn different random
\* values
C4_Witness ==
    /\ pc = "done"
    /\ \A i \in DOMAIN participants : hist.request_count[i] = 3
    /\ dkg_state.public_key.tag = "PublicKey"
    /\ \E i, j \in DOMAIN participants :
          dkg_state.public_key.vk[i] # dkg_state.public_key.vk[j]

\* C5: once a request has got no response within the timeout, the session
\* eventually leaves its wait and sleeps for the retry of the round.
C5_TimeoutRetries == (hist.timeouts > 0) ~> (pc = "sleep")

\* C6: with three honest signers, one of which cannot be reached at the first
\* attempt of a round and registers later, the retried round succeeds and
\* the DKG completes.
C6_Recovers == <>(pc = "done")

\* C7: whatever rounds are retried, and however often, no committed side
\* effect happens twice: the coordinator's session completes (its key is
\* handed over for insertion) at most once, every signer stores its key
\* package at most once, and for the SubSessionId at most one signature is
\* produced, from at most one share of each signer.
C7_NoDuplicateEffects ==
    /\ hist.completions <= 1
    /\ \A s \in Identities : hist.keys_stored[s] <= 1
    /\ signing.signatures <= 1
    /\ \A i \in SigningSubset : signing.shares[i] <= 1

\* the key exists and a signature was produced, a DKG round and a signing
\* round having been retried
C7_Witness ==
    /\ hist.completions = 1
    /\ \A s \in Identities : hist.keys_stored[s] = 1
    /\ hist.retried # {}
    /\ signing.signatures = 1
    /\ signing.retried # {}

\* C8: once the GenPublicKey responses were found to carry different group
\* public keys the session has ended: it never again is at the top of its
\* loop, collecting or handling responses.
C8_MismatchFails ==
    <<"GenPublicKey", "PublicKeyMismatch">> \in hist.rejected
        => pc \notin {"top", "collect", "handle"}

----------------------------------------------------------------------------
(* Properties of the signer replica *)

\* what one step did at signer s: the request it consumed and its reply
Served(s, m, reply) ==
    /\ m \in net /\ m \notin net' /\ m.type = "request" /\ SignerOf(m.peer) = s
    /\ reply \in net' /\ reply \notin net /\ reply.type = "response"

\* the move of the replica that a request of `kind` stands for
ReplicaStep(before, after, kind) ==
    CASE kind = "Part1" ->
            ~before.exists /\ after.exists /\ after.dkg_state.round = "Part1"
      [] kind = "Part2" ->
            /\ before.exists /\ before.dkg_state.round = "Part1"
            /\ after.exists /\ after.dkg_state.round = "Part2"
      [] kind = "GenPublicKey" ->
            /\ before.exists /\ before.dkg_state.round = "Part2"
            /\ after.exists /\ after.dkg_state.round = "Completed"

\* C9: a signer's replica changes only in the step that serves a request,
\* and a request is served (answered with a success, or changing the
\* replica) only from the state it requires: Part2 from Part1, leaving the
\* replica in Part2; GenPublicKey from Part2, leaving it Completed.  So the
\* replica moves Part1 -> Part2 -> Completed and never back.
C9_ReplicaRounds ==
    [][\A s \in Identities :
          LET before == signer_sessions[s]
              after == signer_sessions'[s]
          IN /\ after # before =>
                   \E m \in net, reply \in net' :
                      Served(s, m, reply) /\ ReplicaStep(before, after, m.body.kind)
             /\ \A m \in net, reply \in net' :
                   (Served(s, m, reply) /\ reply.body.kind # "Failure")
                      => ReplicaStep(before, after, m.body.kind)]_vars

\* the replica went through Part1 and Part2 and is Completed
C9_Witness ==
    /\ signer_sessions[SignerUnderTest].exists
    /\ signer_sessions[SignerUnderTest].dkg_state.round = "Completed"
    /\ hist.keys_stored[SignerUnderTest] = 1

\* the request does not match the state of the existing replica
Mismatch(before, kind) ==
    /\ before.exists
    /\ \/ kind = "Part1"
       \/ kind = "Part2" /\ before.dkg_state.round # "Part1"
       \/ kind = "GenPublicKey" /\ before.dkg_state.round # "Part2"

\* C10: a request that does not match the state of the signer's existing
\* replica is answered with the failure InvalidRequest, and whenever a
\* request is answered with a failure (of any kind) the signer's replicas are
\* as they were before.
C10_MismatchRejected ==
    [][\A s \in Identities : \A m \in net, reply \in net' :
          Served(s, m, reply) =>
             /\ Mismatch(signer_sessions[s], m.body.kind) =>
                   /\ reply.body.kind = "Failure"
                   /\ reply.body.crypto_package.tag = "InvalidRequest"
             /\ reply.body.kind = "Failure" => signer_sessions' = signer_sessions]_vars

\* a replica in Part2 has just refused a request that does not match its
\* state
C10_Witness ==
    /\ signer_sessions[SignerUnderTest].exists
    /\ signer_sessions[SignerUnderTest].dkg_state.round = "Part2"
    /\ \E m \in net :
          /\ m.type = "response" /\ m.body.kind = "Failure"
          /\ m.body.crypto_package.tag = "InvalidRequest"

\* the Part1 request can found a replica: its identifier is not the reserved
\* 0, is listed in its participants map and stands there for its identity
Founding(request) ==
    /\ request.kind = "Part1"
    /\ request.identifier # 0
    /\ request.identifier \in DOMAIN request.participants
    /\ request.participants[request.identifier] = request.identity

\* C11: a signer that holds no replica creates one only when it serves a
\* Part1 request whose identifier is non-zero, is present in the request's
\* participants map and maps there to the request's identity; the replica
\* then carries that identifier and identity.  Any other request served
\* without a replica, a non-Part1 request included, is answered with a
\* failure and no replica is created.
C11_ReplicaCreation ==
    [][\A s \in Identities : \A m \in net, reply \in net' :
          (Served(s, m, reply) /\ ~signer_sessions[s].exists) =>
             /\ signer_sessions'[s].exists =>
                   /\ Founding(m.body)
                   /\ signer_sessions'[s].identifier = m.body.identifier
                   /\ signer_sessions'[s].identity = m.body.identity
                   /\ reply.body.kind = "Part1"
             /\ ~Founding(m.body) =>
                   /\ reply.body.kind = "Failure"
                   /\ signer_sessions' = signer_sessions]_vars

\* a replica was created from a Part1 request whose participants map lists
\* the identifier 0
C11_Witness ==
    /\ signer_sessions[SignerUnderTest].exists
    /\ signer_sessions[SignerUnderTest].participants = ZeroParticipants
    /\ signer_sessions[SignerUnderTest].identifier = 1
    /\ \E m \in net : m.type = "response" /\ m.body.kind = "Part1"

----------------------------------------------------------------------------
(* Properties of the validator registration *)

\* the step answered a signer's registration
Registered(reply) ==
    /\ reply = last_response' /\ last_response' # last_response
    /\ reply.protocol = "sig2coor"

\* the registration carries the signature its signer makes for the peer of
\* the connection and this coordinator
SignedForConnection(peer, request) ==
    /\ request.public_key # InvalidPublicKey
    /\ request.signature =
          Sign(request.public_key,
               register_hash(to_identity(request.public_key), peer, CoordinatorPeer))

\* a signer's registration that the coordinator has to accept
ValidRegistration(peer, request) ==
    /\ SignedForConnection(peer, request)
    /\ signer_whitelist.some => to_identity(request.public_key) \in signer_whitelist.set

\* C12: the nonce stored for an identity never decreases and a registered
\* identity stays registered; a valid registration whose nonce is higher
\* than the stored one (or the first of its identity) is stored with its
\* peer and nonce, and after any valid registration the stored nonce is at
\* least the registration's.  So of two valid registrations with different
\* nonces the one with the higher nonce is stored after both, in either
\* order of arrival.
C12_RegistrationMonotone ==
    [][/\ \A id \in Identities :
             valid_validators[id].registered =>
                /\ valid_validators'[id].registered
                /\ valid_validators'[id].nonce >= valid_validators[id].nonce
       /\ \A reply \in {last_response'} :
             (Registered(reply) /\ ValidRegistration(reply.peer, reply.request)) =>
                LET id == to_identity(reply.request.public_key)
                    old == valid_validators[id]
                    new == valid_validators'[id]
                IN /\ new.registered /\ new.nonce >= reply.request.nonce
                   /\ (~old.registered \/ old.nonce < reply.request.nonce) =>
                         /\ new.p2p_peer_id = reply.peer
                         /\ new.nonce = reply.request.nonce
                   /\ (old.registered /\ old.nonce > reply.request.nonce) =>
                         new = old]_vars

\* the registration with nonce 7 arrived first, from the new peer; the one
\* with nonce 5 from the old peer was accepted after it and the table still
\* holds the registration with nonce 7
C12_Witness ==
    /\ last_response.protocol = "sig2coor"
    /\ last_response.body.tag = "Success"
    /\ last_response.request.nonce = 5
    /\ last_response.peer = PeerOf(IdentityOf(1))
    /\ last_response.request.public_key = PublicKeyOf(IdentityOf(1))
    /\ valid_validators[IdentityOf(1)] \in
          {Validator(NewPeer, 7, a) : a \in Addresses \cup {NoAddress}}

\* C13: a valid registration whose nonce is less than or equal to the nonce
\* stored for its identity leaves the validator table as it was: peer,
\* nonce and address of that identity (and of every other) are unchanged.
C13_StaleIgnored ==
    [][\A reply \in {last_response'} :
          (/\ Registered(reply) /\ ValidRegistration(reply.peer, reply.request)
           /\ valid_validators[to_identity(reply.request.public_key)].registered
           /\ reply.request.nonce
                 <= valid_validators[to_identity(reply.request.public_key)].nonce)
             => valid_validators' = valid_validators]_vars

\* a registration with the stored nonce 7 was accepted from another peer,
\* connected from an address, and the stored registration is the earlier one
C13_Witness ==
    /\ last_response.protocol = "sig2coor"
    /\ last_response.body.tag = "Success"
    /\ last_response.request.nonce = 7
    /\ last_response.peer = NewPeer
    /\ NewPeer \in DOMAIN p2ppeerid_2_endpoint
    /\ last_response.request.public_key = PublicKeyOf(IdentityOf(1))
    /\ valid_validators[IdentityOf(1)] = Validator(PeerOf(IdentityOf(1)), 7, NoAddress)

\* C14: with a whitelist configured, a signer's registration whose identity
\* is outside the whitelist is answered with Failure, whatever its
\* signature, and leaves the validator table and the auto-DKG state as they
\* were.
C14_WhitelistEnforced ==
    [][\A reply \in {last_response'} :
          (/\ Registered(reply)
           /\ reply.request.public_key # InvalidPublicKey
           /\ signer_whitelist.some
           /\ to_identity(reply.request.public_key) \notin signer_whitelist.set)
             => /\ reply.body.tag = "Failure"
                /\ valid_validators' = valid_validators
                /\ auto_dkg' = auto_dkg]_vars

\* a registration with a valid signature was refused for the whitelist,
\* auto-DKG being configured
C14_Witness ==
    /\ last_response.protocol = "sig2coor"
    /\ last_response.body.tag = "Failure"
    /\ last_response.body.err = "not in whitelist"
    /\ SignedForConnection(last_response.peer, last_response.request)
    /\ auto_dkg.some

\* C16: a signer's registration is answered with Success, or changes the
\* validator table, only if its signature is the one made with its public
\* key over H("register" || identity || peer of the connection ||
\* coordinator peer); any other registration (one replayed from another
\* peer, or signed for another coordinator) is answered with Failure and
\* leaves the validator table unchanged.
C16_SignatureRequired ==
    [][\A reply \in {last_response'} :
          Registered(reply) =>
             /\ (reply.body.tag = "Success" \/ valid_validators' # valid_validators)
                   => SignedForConnection(reply.peer, reply.request)
             /\ ~SignedForConnection(reply.peer, reply.request)
                   => /\ reply.body.tag = "Failure"
                      /\ valid_validators' = valid_validators]_vars

\* the registration stored for the old peer was replayed from the new peer
\* and refused
C16_Witness ==
    /\ last_response.protocol = "sig2coor"
    /\ last_response.peer = NewPeer
    /\ last_response.body.tag = "Failure"
    /\ last_response.body.err = "Invalid signature"
    /\ SignedForConnection(PeerOf(IdentityOf(1)), last_response.request)
    /\ valid_validators[IdentityOf(1)].registered
    /\ valid_validators[IdentityOf(1)].p2p_peer_id = PeerOf(IdentityOf(1))
    /\ valid_validators[IdentityOf(1)].nonce = last_response.request.nonce

\* the step answered a node's request
NodeAnswered(reply) ==
    /\ reply = last_response' /\ last_response' # last_response
    /\ reply.protocol = "node2coor"
    /\ "request" \in DOMAIN reply

\* C15: a node's request whose validator identity carries a valid signature
\* is accepted whether or not the identity is in the whitelist: it is never
\* refused for the whitelist, the instruction of a signing, listing or
\* tweak request, and of a DKG request unless auto-DKG is on or it names
\* more than 255 participants, is sent to the session manager, and an
\* auto-DKG query is answered.  The validator table is not changed.
C15_NodeIgnoresWhitelist ==
    [][\A reply \in {last_response'} :
          (/\ NodeAnswered(reply)
           /\ SignedForConnection(reply.peer, reply.request.validator_identity)) =>
             LET i == reply.request.instruction
                 refused == /\ i.kind = "DKGRequest"
                            /\ \/ auto_dkg.some
                               \/ Len(i.participants) > MaxParticipants
             IN /\ valid_validators' = valid_validators
                /\ reply.body.tag = "Failure" <=> refused
                /\ (i.kind # "AutoDKGRequest" /\ ~refused) =>
                      /\ reply.body.tag = "Pending"
                      /\ Len(instruction_sender') = Len(instruction_sender) + 1
                      /\ instruction_sender'[Len(instruction_sender')].kind =
                            CASE i.kind = "DKGRequest" -> "NewKey"
                              [] i.kind = "SigningRequest" -> "Sign"
                              [] i.kind = "LsPkRequest" -> "ListPkIds"
                              [] i.kind = "PkTweakRequest" -> "PkTweakRequest"
                /\ i.kind = "AutoDKGRequest" =>
                      reply.body.tag = "AutoDKGResponse"]_vars

\* with a whitelist that does not list it, an identity's signing request
\* was accepted on the node endpoint and its instruction waits for the
\* session manager
C15_Witness ==
    /\ signer_whitelist.some
    /\ last_response.protocol = "node2coor"
    /\ to_identity(last_response.request.validator_identity.public_key)
          \notin signer_whitelist.set
    /\ last_response.request.instruction.kind = "SigningRequest"
    /\ last_response.body.tag = "Pending"
    /\ instruction_sender # <<>>
    /\ instruction_sender[Len(instruction_sender)].kind = "Sign"

----------------------------------------------------------------------------
(* Properties of the routing of requests and responses *)

\* the pending-request map of the requests of `kind`
MappingOfRequest(kind, dkg, sig, dkgex, sigex) ==
    CASE kind = "SigningRequest" -> sig
      [] kind = "DKGRequestEx" -> dkgex
      [] kind = "SigningRequestEx" -> sigex
      [] OTHER -> dkg

\* the pending-request map a response of `variant` is looked up in
MappingOfResponse(variant) ==
    CASE variant = "SigningResponse" -> signing_request_mapping
      [] variant = "DKGResponseEx" -> dkg_request_mapping_ex
      [] variant = "SigningResponseEx" -> signing_request_mapping_ex
      [] OTHER -> dkg_request_mapping

\* the latest registration handled was the accepted one with nonce 7 from
\* the new peer
ReRegistered ==
    /\ last_response.protocol = "sig2coor"
    /\ last_response.body.tag = "Success"
    /\ last_response.peer = NewPeer
    /\ last_response.request = RegistrationFrom(NewPeer, 7)

\* C17: every request the coordinator sends to a signer (DKG, signing and
\* their extended variants) goes to the peer the validator table holds for
\* the request's identity, and the pending-request entry made for it
\* expects that peer; once the identity has re-registered from the new peer
\* with nonce 7 the table holds the new peer for good, so every later
\* request goes to the new peer and its entry expects the new peer.
C17_ReRegistrationRouting ==
    [][/\ \A m \in net' \ net :
             m.type = "request" =>
                LET v == valid_validators[m.body.identity]
                    map == MappingOfRequest(m.body.kind, dkg_request_mapping',
                               signing_request_mapping', dkg_request_mapping_ex',
                               signing_request_mapping_ex')
                IN /\ v.registered /\ m.peer = v.p2p_peer_id
                   /\ m.rid \in DOMAIN map /\ map[m.rid].peer = m.peer
                   /\ ReRegistered => m.peer = NewPeer
       /\ (\/ ReRegistered
           \/ /\ valid_validators[RoutedIdentity].registered
              /\ valid_validators[RoutedIdentity].nonce = 7)
             => /\ valid_validators'[RoutedIdentity].registered
                /\ valid_validators'[RoutedIdentity].p2p_peer_id = NewPeer
                /\ valid_validators'[RoutedIdentity].nonce = 7]_vars

\* after the re-registration requests of three kinds are on their way to the
\* new peer, their entries expecting it, while a signing request sent before
\* is still on its way to the old peer
C17_Witness ==
    /\ valid_validators[RoutedIdentity].registered
    /\ valid_validators[RoutedIdentity].p2p_peer_id = NewPeer
    /\ \E m \in net :
          /\ m.type = "request" /\ m.body.kind = "SigningRequest"
          /\ m.peer = PeerOf(RoutedIdentity)
    /\ \E m \in net :
          /\ m.type = "request" /\ m.body.kind = "Part1" /\ m.peer = NewPeer
          /\ dkg_request_mapping[m.rid].peer = NewPeer
    /\ \E m \in net :
          /\ m.type = "request" /\ m.body.kind = "DKGRequestEx" /\ m.peer = NewPeer
          /\ dkg_request_mapping_ex[m.rid].peer = NewPeer
    /\ \E m \in net :
          /\ m.type = "request" /\ m.body.kind = "SigningRequestEx"
          /\ m.peer = NewPeer
          /\ signing_request_mapping_ex[m.rid].peer = NewPeer

\* C18: when the event loop takes a response, the response is delivered to
\* the reply channel of the request with its request id if it comes from the
\* peer that request was sent to; otherwise it is dropped: nothing is
\* delivered and the event loop goes on running.  A reply channel receives
\* a response only in this way.
C18_RoutedByPeer ==
    [][/\ \A m \in net \ net' :
             m.type = "response" =>
                LET map == MappingOfResponse(ResponseVariant(m.body))
                    expected == m.rid \in DOMAIN map /\ map[m.rid].peer = m.peer
                IN /\ expected => futures'[map[m.rid].sender] = Ready(m.body)
                   /\ ~expected => futures' = futures /\ event_loop' = "running"
       /\ \A c \in DOMAIN futures :
             (futures[c].st = "pending" /\ futures'[c].st = "ready") =>
                \E m \in net \ net' :
                   LET map == MappingOfResponse(ResponseVariant(m.body))
                   IN /\ m.type = "response" /\ m.rid \in DOMAIN map
                      /\ map[m.rid] = [sender |-> c, peer |-> m.peer]
                      /\ futures'[c] = Ready(m.body)]_vars

----------------------------------------------------------------------------
(* Properties of the extended path *)

\* the step answered the envelope of a signer
EnvelopeAnswered(reply) ==
    /\ reply = last_response' /\ last_response' # last_response
    /\ reply.protocol = "sig2coor"
    /\ reply.request.decodes

\* C19: an envelope of stage Init that arrives from a signer, on the DKG or
\* the signing path, is answered with Failure, nothing is sent to any
\* participant and nothing is put on a final channel; no Init envelope is
\* ever on its way to a signer or waiting on a final channel.
C19_InitRejected ==
    /\ [][\A reply \in {last_response'} :
             (EnvelopeAnswered(reply) /\ reply.request.stage = "Init") =>
                /\ reply.body.tag = "Failure"
                /\ net' = net
                /\ dkg_in_final_channel' = dkg_in_final_channel
                /\ signing_in_final_channel' = signing_in_final_channel]_vars
    /\ [](/\ \A m \in net : m.body.stage # "Init"
          /\ \A k \in DOMAIN dkg_in_final_channel :
                dkg_in_final_channel[k].stage # "Init"
          /\ \A k \in DOMAIN signing_in_final_channel :
                signing_in_final_channel[k].stage # "Init")

\* a signing Init envelope was refused while a relayed request was on its
\* way and a final message waited
C19_Witness ==
    /\ last_response.protocol = "sig2coor"
    /\ last_response.request.kind = "SigningRequestEx"
    /\ last_response.request.stage = "Init"
    /\ last_response.request.decodes
    /\ last_response.body.tag = "Failure"
    /\ net # {}
    /\ dkg_in_final_channel # <<>>

\* the envelope's `from` is the participant whose registered peer is `peer`
FromAuthenticated(peer, envelope) ==
    /\ envelope.from \in DOMAIN envelope.participants
    /\ valid_validators[envelope.participants[envelope.from]].registered
    /\ valid_validators[envelope.participants[envelope.from]].p2p_peer_id = peer

\* C20: an Intermediate envelope with target Target(j) is forwarded, as it
\* is, to the peer of participant j and answered with Success when j is in
\* the envelope's participants (and registered) and the envelope's `from`
\* is the participant registered from the connection it arrived on;
\* otherwise nothing is forwarded and the sender is answered with Failure.
C20_TargetValidated ==
    [][\A reply \in {last_response'} :
          (/\ EnvelopeAnswered(reply)
           /\ reply.request.stage = "Intermediate"
           /\ reply.request.target.tag = "Target") =>
             LET envelope == reply.request
                 j == envelope.target.to
                 valid == /\ j \in DOMAIN envelope.participants
                          /\ Routable(envelope.participants[j])
                          /\ FromAuthenticated(reply.peer, envelope)
             IN IF valid
                THEN /\ reply.body.tag = "Success"
                     /\ \E m \in net' \ net :
                           /\ net' = net \cup {m}
                           /\ m.body = envelope
                           /\ m.peer =
                                 valid_validators[envelope.participants[j]].p2p_peer_id
                ELSE /\ reply.body.tag = "Failure"
                     /\ net' = net]_vars

\* the peers the step relayed a request to
RelayedTo == {m.peer : m \in net' \ net}

\* C21: an Intermediate envelope with target Broadcast is forwarded, as it
\* is, to every (registered) participant of the envelope except the one
\* named in `from` and to no one else, and the connection that sent it is
\* not among the receivers.
C21_BroadcastExceptFrom ==
    [][\A reply \in {last_response'} :
          (/\ EnvelopeAnswered(reply)
           /\ reply.request.stage = "Intermediate"
           /\ reply.request.target.tag = "Broadcast") =>
             LET envelope == reply.request
                 others == {i \in DOMAIN envelope.participants \ {envelope.from} :
                               Routable(envelope.participants[i])}
             IN /\ RelayedTo =
                     {valid_validators[envelope.participants[i]].p2p_peer_id :
                         i \in others}
                /\ \A m \in net' \ net : m.body = envelope
                /\ reply.peer \notin RelayedTo]_vars

\* C22: an envelope of stage Final that arrives from a signer is put once
\* on the final channel of its protocol (the other channel is untouched),
\* nothing is sent to any signer, and the sender is answered with Success.
C22_FinalDelivered ==
    [][\A reply \in {last_response'} :
          (EnvelopeAnswered(reply) /\ reply.request.stage = "Final") =>
             LET envelope == reply.request
                 dkg == envelope.kind = "DKGRequestEx"
             IN /\ net' = net
                /\ dkg_in_final_channel' =
                     IF dkg THEN dkg_in_final_channel \o <<envelope>>
                     ELSE dkg_in_final_channel
                /\ signing_in_final_channel' =
                     IF dkg THEN signing_in_final_channel
                     ELSE signing_in_final_channel \o <<envelope>>
                /\ reply.body.tag = "Success"]_vars

\* a signing Final envelope has just been put on the signing final channel
\* while a DKG one waits and a relayed request is in flight
C22_Witness ==
    /\ last_response.protocol = "sig2coor"
    /\ last_response.request.kind = "SigningRequestEx"
    /\ last_response.request.stage = "Final"
    /\ last_response.request.decodes
    /\ signing_in_final_channel = <<last_response.request>>
    /\ net # {}

----------------------------------------------------------------------------
(* Properties of the response channels *)

\* the step handled a request on the sig2coor protocol
Sig2CoorHandled(reply) ==
    /\ reply = last_response' /\ last_response' # last_response
    /\ reply.protocol = "sig2coor"

\* C23: the handling of a signer's request (a registration that is accepted
\* or refused, an envelope of any stage and target, decodable or not,
\* relayed or not) sends one response, Success or Failure, on the request's
\* channel; no request of a node has ever got more than one response.
C23_OneResponse ==
    /\ [][\A reply \in {last_response'} :
             Sig2CoorHandled(reply) => reply.body.tag \in {"Success", "Failure"}]_vars
    /\ [](\A channel \in DOMAIN node_answers : node_answers[channel] <= 1)

\* a node's request was answered from its future after the session manager
\* had answered, another one at once, and an envelope had been relayed
C23_Witness ==
    /\ last_response.protocol = "node2coor"
    /\ "request" \notin DOMAIN last_response
    /\ node_answers[last_response.channel] = 1
    /\ Cardinality(DOMAIN node_answers) > 1
    /\ net # {}

----------------------------------------------------------------------------
(* Properties of auto-DKG *)

\* the NewKey instructions of auto-DKG tasks that wait for the session manager
AutoNewKeys ==
    {i \in DOMAIN instruction_sender :
        /\ instruction_sender[i].kind = "NewKey"
        /\ instruction_sender[i].oneshot < 0}

\* the NewKey instructions asked for by a node or on the IPC socket
ManualNewKeys ==
    {i \in DOMAIN instruction_sender :
        /\ instruction_sender[i].kind = "NewKey"
        /\ instruction_sender[i].oneshot >= 0}

\* the step handled a signer's registration
RegistrationStep ==
    /\ last_response' # last_response
    /\ last_response'.protocol = "sig2coor"

C26_FileAbsentOrComplete ==
    \/ auto_dkg_file.state = "absent"
    \/ /\ auto_dkg_file.state = "written"
       /\ \A ct \in CryptoTypes : auto_dkg_file.content.results[ct] # NoPkId

\* the coordinator runs with the state it has loaded from auto_dkg.json
LoadedFromFile ==
    /\ event_loop = "running"
    /\ auto_dkg_file.state = "written"
    /\ auto_dkg = auto_dkg_file.content

\* C27: while the coordinator runs with the auto-DKG state loaded from
\* auto_dkg.json no NewKey asked for by a node or on the IPC socket waits
\* for the session manager, and a node's DKG request is answered Failure.
C27_ManualNewKeyRejected ==
    /\ [](LoadedFromFile => ManualNewKeys = {})
    /\ [][(/\ LoadedFromFile
           /\ NodeAnswered(last_response')
           /\ last_response'.request.instruction.kind = "DKGRequest") =>
             last_response'.body.tag = "Failure"]_vars

\* the step is a start of the process
Restarted ==
    /\ auto_dkg_tasks' = [ct \in CryptoTypes |-> NoTask]
    /\ valid_validators' = [s \in Identities |-> NoValidator]
    /\ last_response' = NoResponse

\* C28: a PkId that the auto-DKG state holds for a ciphersuite is never
\* replaced, neither in a run nor by a start that finds auto_dkg.json; and
\* once the file is written the PkIds of the state are those of the file,
\* whatever restarts and registrations follow.
C28_AutoIdempotent ==
    /\ [][(~Restarted \/ auto_dkg_file.state = "written") =>
             \A ct \in CryptoTypes :
                auto_dkg.results[ct] # NoPkId =>
                   auto_dkg'.results[ct] = auto_dkg.results[ct]]_vars
    /\ [](auto_dkg_file.state = "written" =>
             auto_dkg.results = auto_dkg_file.content.results)

\* after a start that loaded the file every signer has registered again,
\* signer 1 from its new peer
C28_Witness ==
    /\ LoadedFromFile
    /\ \A s \in Identities : valid_validators[s].registered
    /\ last_response.protocol = "sig2coor"
    /\ last_response.request.nonce = 7
    /\ \E ct \in CryptoTypes : auto_dkg.results[ct] = 2

----------------------------------------------------------------------------
(* Properties of requests for an identity that is not registered *)

\* the event loop handled the session request that answers on oneshot k
RequestHandled(k) ==
    IF k = 1 THEN Len(dkg_session_receiver') < Len(dkg_session_receiver)
    ELSE k \notin DOMAIN futures /\ k \in DOMAIN futures'

\* C30: when a session request (DKG, signing or an extended one) is for an
\* identity that has no registration, nothing is sent, no pending-request
\* entry is made in any map, the request's oneshot gets a failure response
\* and the event loop keeps running; when the identity is registered (also
\* after earlier requests have failed) the request goes to its peer and the
\* oneshot stays pending.
C30_UnregisteredNotRoutable ==
    [][\A k \in {1, SigningOneshot, DkgExOneshot, SigningExOneshot} :
          RequestHandled(k) =>
             LET v == valid_validators[RoutedIdentity]
             IN IF ~v.registered
                THEN /\ net' = net
                     /\ dkg_request_mapping' = dkg_request_mapping
                     /\ other_mappings' = other_mappings
                     /\ futures'[k].st = "ready"
                     /\ futures'[k].val.kind = "Failure"
                     /\ event_loop' = "running"
                ELSE /\ \E m \in net' \ net :
                           /\ net' = net \cup {m}
                           /\ m.type = "request"
                           /\ m.peer = v.p2p_peer_id
                     /\ futures'[k] = Pending]_vars

\* a DKG and a signing request failed before the signer registered; after
\* it registered an extended DKG request is on its way to its peer
C30_Witness ==
    /\ 1 \in DOMAIN futures /\ futures[1].st = "ready"
    /\ futures[1].val.kind = "Failure"
    /\ SigningOneshot \in DOMAIN futures
    /\ futures[SigningOneshot].st = "ready"
    /\ valid_validators[RoutedIdentity].registered
    /\ \E m \in net :
          /\ m.type = "request" /\ m.body.kind = "DKGRequestEx"
          /\ m.peer = valid_validators[RoutedIdentity].p2p_peer_id
    /\ futures[DkgExOneshot] = Pending

\* C29: the event loop task keeps running whatever event it handles.
C29_EventLoopNeverAborts == event_loop = "running"

----------------------------------------------------------------------------
(* Properties of the coordinator's sessions and their SessionIds *)

\* the identities of a participant map are pairwise distinct
DistinctIdentities(map) ==
    \A i, j \in DOMAIN map : map[i] = map[j] => i = j

\* C31: every session the coordinator has satisfies
\* 1 <= threshold <= |participants| <= 255, its identifiers are non-zero (and
\* unique, being the keys of the map) and its identities pairwise distinct
C31_SessionBounds ==
    \A sid \in DOMAIN sessions :
        LET s == sessions[sid].session
        IN /\ 1 <= s.min_signers
           /\ s.min_signers <= Cardinality(DOMAIN s.participants)
           /\ Cardinality(DOMAIN s.participants) <= MaxParticipants
           /\ 0 \notin DOMAIN s.participants
           /\ DistinctIdentities(s.participants)

\* the list of one request is a permutation of the list of the other
IsPermutation(p, q) ==
    /\ Len(p) = Len(q)
    /\ \E f \in [DOMAIN p -> DOMAIN q] :
          /\ \A i, j \in DOMAIN p : f[i] = f[j] => i = j
          /\ \A i \in DOMAIN p : q[f[i]] = p[i]

\* the requests that agree in ciphersuite and threshold and whose lists are
\* permutations of each other
SameSessionAsked(a, b) ==
    /\ a.crypto_type = b.crypto_type
    /\ a.min_signers = b.min_signers
    /\ IsPermutation(a.participants, b.participants)

\* C32: two DKG requests get the same SessionId exactly when they agree in
\* ciphersuite and threshold and the participant list of one is a
\* permutation of the list of the other
C32_DeterministicSessionId ==
    \A s1, s2 \in DOMAIN sessions :
        \A a \in sessions[s1].attached, b \in sessions[s2].attached :
            SameSessionAsked(a, b) <=> s1 = s2

----------------------------------------------------------------------------
(* Properties of the signer's signing state *)

\* signer i is asked for its Round2 share in this step and answers
Round2Asked(i) ==
    /\ signing.round = "Round2"
    /\ i \notin DOMAIN signing.replies
    /\ i \in DOMAIN signing'.replies
    /\ signing'.replies[i] # Err("Missing")

\* C33: a signer serves a Round2 request only while it holds the nonces of
\* the sub-session (state Round1), and deletes them with the share it emits;
\* once it has emitted its share it holds no nonces and answers every later
\* Round2 request for the SubSessionId with InvalidRequest.
C33_ShareAtMostOnce ==
    /\ [][\A i \in SigningSubset :
             Round2Asked(i) =>
                IF signing.nonces[i].st = "held"
                THEN /\ signing'.replies[i].ok
                     /\ signing'.nonces[i].st = "deleted"
                     /\ signing'.shares[i] = signing.shares[i] + 1
                ELSE /\ signing'.replies[i] = Err("InvalidRequest")
                     /\ signing'.nonces[i] = signing.nonces[i]
                     /\ signing'.shares[i] = signing.shares[i]]_vars
    /\ [](\A i \in SigningSubset :
             signing.shares[i] >= 1 => signing.nonces[i].st = "deleted")

\* a signer that has emitted its share was asked again in a retried Round2
\* and has refused
C33_Witness ==
    /\ signing.round = "Round2"
    /\ "Round2" \in signing.retried
    /\ \E i \in DOMAIN signing.replies :
          /\ signing.shares[i] = 1
          /\ signing.nonces[i].st = "deleted"
          /\ signing.replies[i] = Err("InvalidRequest")

----------------------------------------------------------------------------
(* Properties of the signer's replica facing packages of another ciphersuite *)

\* the request is one the replica would serve in its state, from the
\* participant the replica stands for
InTurn(before, body) ==
    /\ before.exists
    /\ \/ body.kind = "Part2" /\ before.dkg_state.round = "Part1"
       \/ body.kind = "GenPublicKey" /\ before.dkg_state.round = "Part2"
    /\ ~IdentifierError(before.participants, body)

\* the request's tag, or a package it carries from another participant, is
\* of another ciphersuite than the session's
ForeignCiphersuite(before, body) ==
    \/ body.crypto_type # before.crypto_type
    \/ \E id \in DOMAIN body.round1_packages \ {before.identifier} :
          body.round1_packages[id].ct # before.crypto_type
    \/ \E id \in DOMAIN body.round2_packages \ {before.identifier} :
          body.round2_packages[id].ct # before.crypto_type

\* C34: a Part2 or GenPublicKey request that the replica would serve in its
\* state but whose ciphersuite tag or packages belong to another ciphersuite
\* than the session's is answered with the failure InvalidCryptoType, and the
\* replica stays as it was.
C34_ForeignCiphersuiteRejected ==
    [][\A s \in Identities : \A m \in net, reply \in net' :
          (/\ Served(s, m, reply)
           /\ InTurn(signer_sessions[s], m.body)
           /\ ForeignCiphersuite(signer_sessions[s], m.body))
             => /\ reply.body.kind = "Failure"
                /\ reply.body.crypto_package.tag = "InvalidCryptoType"
                /\ signer_sessions'[s] = signer_sessions[s]]_vars

----------------------------------------------------------------------------
(* Properties of list_hash *)

----------------------------------------------------------------------------
(* Properties of the event loop taking responses of signers *)

\* C36: whatever response the event loop takes from a signer, of any of the
\* four variants and with any request id, in the variant's pending-request
\* map or not, the event loop is running after it.
C36_ResponsesNeverCrash ==
    [][\A m \in net \ net' :
          (m.type = "response" /\ event_loop = "running")
             => event_loop' = "running"]_vars

----------------------------------------------------------------------------
(* Properties of the identity check of a node's request *)

\* C37: handling a node's request, whatever its validator identity and its
\* instruction, leaves the validator table and the auto-DKG state (its
\* registered set included) as they were and starts no auto-DKG task; and
\* when the identity is not validly signed for the connection the request is
\* answered with a failure and no instruction is sent to the session manager.
C37_NodeCheckRegistersNothing ==
    [][\A reply \in {last_response'} :
          NodeAnswered(reply) =>
             /\ valid_validators' = valid_validators
             /\ auto_dkg' = auto_dkg
             /\ auto_dkg_tasks' = auto_dkg_tasks
             /\ ~SignedForConnection(reply.peer, reply.request.validator_identity) =>
                   /\ reply.body.tag = "Failure"
                   /\ instruction_sender' = instruction_sender]_vars

\* with auto-DKG waiting for exactly this identity, a node's request with
\* the identity's valid signature was handled and nothing was registered
C37_Witness ==
    /\ auto_dkg.some
    /\ last_response.protocol = "node2coor"
    /\ "request" \in DOMAIN last_response
    /\ SignedForConnection(last_response.peer,
                           last_response.request.validator_identity)
    /\ LET identity ==
              to_identity(last_response.request.validator_identity.public_key)
       IN /\ auto_dkg.whitelist = {identity}
          /\ auto_dkg.registered = {}
          /\ ~valid_validators[identity].registered
    /\ last_response.body.tag = "AutoDKGResponse"

----------------------------------------------------------------------------
(* Properties of the pending-request entries *)

\* the four pending-request maps, by the variant of the responses looked up
\* in them
PendingMaps(dkg, sig, dkgex, sigex) ==
    [DKGResponse |-> dkg, SigningResponse |-> sig, DKGResponseEx |-> dkgex,
     SigningResponseEx |-> sigex]

\* C38: an entry leaves its pending-request map exactly in the step that
\* takes a response of the map's variant with the entry's request id from
\* the peer the request was sent to, and that step delivers the response on
\* the entry's reply channel, which had received nothing before; a response
\* from another peer leaves maps and reply channels as they were; and a
\* reply channel that has received a response never receives another.
C38_EntryAnsweredOnce ==
    [][LET before == PendingMaps(dkg_request_mapping, signing_request_mapping,
                                 dkg_request_mapping_ex, signing_request_mapping_ex)
           after == PendingMaps(dkg_request_mapping', signing_request_mapping',
                                dkg_request_mapping_ex', signing_request_mapping_ex')
       IN /\ \A v \in DOMAIN before : \A rid \in DOMAIN before[v] \ DOMAIN after[v] :
                \E m \in net \ net' :
                   /\ m.type = "response" /\ m.rid = rid /\ ResponseVariant(m.body) = v
                   /\ m.peer = before[v][rid].peer
                   /\ futures[before[v][rid].sender] = Pending
                   /\ futures'[before[v][rid].sender] = Ready(m.body)
          /\ \A m \in net \ net' :
                (/\ m.type = "response"
                 /\ m.rid \in DOMAIN before[ResponseVariant(m.body)]) =>
                   LET v == ResponseVariant(m.body)
                   IN IF m.peer = before[v][m.rid].peer
                      THEN m.rid \notin DOMAIN after[v]
                      ELSE after = before /\ futures' = futures
          /\ \A c \in DOMAIN futures :
                futures[c].st = "ready" => (c \in DOMAIN futures' /\ futures'[c] = futures[c])]_vars

\* the signing session has got its response and the entry is gone, while a
\* response of another peer with the same request id is still on its way
C38_Witness ==
    /\ event_loop = "running"
    /\ SigningOneshot \in DOMAIN futures
    /\ futures[SigningOneshot].st = "ready"
    /\ \E m \in net :
          /\ m.type = "response"
          /\ ResponseVariant(m.body) = "SigningResponse"
          /\ m.rid \notin DOMAIN signing_request_mapping
          /\ m.peer = NewPeer

----------------------------------------------------------------------------
(* Properties of the lock around the auto-DKG state *)

\* C39: no user of the auto-DKG lock asks for it while it holds a guard of
\* it; every guard taken is dropped again; and the event loop, whenever it
\* waits for the lock, gets it.
C39_LockNeverBlocksForever ==
    /\ [](\A u \in LockUsers : Wants(lock_pc[u]) # "none" => u \notin Holders)
    /\ \A u \in LockUsers : (u \in Holders) ~> (u \notin Holders)
    /\ (Wants(lock_pc["event_loop"]) # "none")
          ~> (Wants(lock_pc["event_loop"]) = "none")

\* the event loop waits for the write lock of a registration while one task
\* holds a read guard and another waits to record its result
C39_Witness ==
    /\ lock_pc["event_loop"] = "vi_write"
    /\ \E a, b \in CryptoTypes :
          /\ a \in auto_dkg_lock.readers
          /\ lock_pc[b] = "task_write"

----------------------------------------------------------------------------
(* Properties of the answers to relayed envelopes *)

\* the participant named by the target is one of the envelope's participants
\* and its identity is registered
TargetRegistered(envelope) ==
    /\ envelope.target.to \in DOMAIN envelope.participants
    /\ valid_validators[envelope.participants[envelope.target.to]].registered

\* C40: an Intermediate envelope with target Broadcast is answered with
\* Success whichever of its participants are registered, none included; one
\* with target Target(j) is answered with Success if j is a participant whose
\* identity is registered and with Failure, nothing being sent, otherwise.
C40_RelayAnswers ==
    [][\A reply \in {last_response'} :
          (/\ EnvelopeAnswered(reply)
           /\ reply.request.decodes
           /\ reply.request.stage = "Intermediate") =>
             IF reply.request.target = Broadcast
             THEN reply.body.tag = "Success"
             ELSE IF TargetRegistered(reply.request)
             THEN reply.body.tag = "Success"
             ELSE reply.body.tag = "Failure" /\ net' = net]_vars

\* a broadcast was answered with Success although no participant is
\* registered and nothing was sent
C40_Witness ==
    /\ last_response.protocol = "sig2coor"
    /\ last_response.request.decodes
    /\ last_response.request.stage = "Intermediate"
    /\ last_response.request.target = Broadcast
    /\ last_response.body.tag = "Success"
    /\ \A s \in Identities : ~valid_validators[s].registered
    /\ net = {}

====
